---- MODULE Spec2Model ----
(***************************************************************************)
(* futarchy-charts: tiered TTL caches, the demand-driven warmer, the chart *)
(* handler, the multi-hop spot combination and the candle forward-fill.    *)
(*                                                                         *)
(* Time is the value of Date.now(), counted in seconds (the code counts    *)
(* milliseconds and multiplies every TTL given in seconds by 1000).        *)
(*                                                                         *)
(* The module holds one state machine per component:                       *)
(*   SpecCache  Cache.get / Cache.set / Cache.clear on one Cache instance  *)
(*   SpecChart  handleUnifiedChartRequest, registerForWarming and the      *)
(*              setInterval callback of startWarmer                        *)
(*   SpecHop    combineHopCandles applied to bounded hop series            *)
(*   SpecFill   forwardFillCandles applied to bounded candle series        *)
(* A component's actions leave the other components' variables unchanged.  *)
(***************************************************************************)
EXTENDS Integers, Sequences, FiniteSets, TLC

VARIABLES
    now,        \* Date.now(), in seconds
    caches,     \* cache name -> Cache.store (key -> [value, time])
    inst,       \* SpecCache: the Cache instance exercised
    lastSet,    \* SpecCache history: key -> the most recent set since the last clear
    last,       \* observation of the most recent operation
    warmList,   \* warmer.js warmList: entries in Map insertion order
    warmer,     \* the setInterval callback: [pc, cursor, fired]; requests served
    upFailed,   \* history: some upstream call has failed so far
    hopIn,      \* SpecHop: hopCandlesArray
    hopOut,     \* SpecHop: result of combineHopCandles
    spotCall,   \* SpecSpot: the fetchSpotCandles call: [pc, config, hops, result]
    fillIn,     \* SpecFill: [candles, maxTimestamp, nowSeconds]
    fillOut,    \* SpecFill: result of forwardFillCandles
    IS_CHECKPOINT, \* config/endpoints.js: the configured backend is Checkpoint
    registry,   \* adapters: what the registry backend holds
    calls,      \* adapters: caller -> the adapter call it has in flight
    settled     \* adapters history: calls made, and per key the call settled last

vars == <<now, caches, inst, lastSet, last, warmList, warmer, upFailed,
          hopIn, hopOut, spotCall, fillIn, fillOut, IS_CHECKPOINT, registry,
          calls, settled>>

cacheVars == <<now, caches, inst, lastSet>>
chartVars == <<warmList, warmer, upFailed>>
hopVars   == <<hopIn, hopOut, spotCall>>
fillVars  == <<fillIn, fillOut>>
adapterVars == <<IS_CHECKPOINT, registry, calls, settled>>

(***************************************************************************)
(* Configuration (config/cache-config.js)                                  *)
(***************************************************************************)
RESPONSE_TTL_SEC == 30
REGISTRY_TTL_SEC == 300
CANDLES_TTL_SEC == 30
SPOT_TTL_SEC == 30

Max(a, b) == IF a >= b THEN a ELSE b
Min(a, b) == IF a <= b THEN a ELSE b

WARMER_INTERVAL_SEC == Max(RESPONSE_TTL_SEC - 3, 5)

(***************************************************************************)
(* Cache (utils/cache.js)                                                  *)
(***************************************************************************)
CacheNames == {"registry", "candles", "spot", "response"}

\* new Cache(name, TTL_SEC * 1000): the instance's ttl
CacheTtl(name) ==
    CASE name = "registry" -> REGISTRY_TTL_SEC
      [] name = "candles"  -> CANDLES_TTL_SEC
      [] name = "spot"     -> SPOT_TTL_SEC
      [] OTHER             -> RESPONSE_TTL_SEC

Undefined == "undefined"
EmptyStore == [k \in {} |-> Undefined]

\* Map.delete(key)
MapDelete(s, k) == [x \in DOMAIN s \ {k} |-> s[x]]

\* Map.set(key, entry)
MapSet(s, k, e) == [x \in DOMAIN s \cup {k} |-> IF x = k THEN e ELSE s[x]]

\* Mutant of CacheGet: an expired entry is reported as a miss but left in the store.
CacheGetKeepStale(s, k, t, ttl) ==
    IF k \notin DOMAIN s
    THEN [hit |-> FALSE, value |-> Undefined, store |-> s]
    ELSE IF t - s[k].time > ttl
         THEN [hit |-> FALSE, value |-> Undefined, store |-> s]
         ELSE [hit |-> TRUE, value |-> s[k].value, store |-> s]

\* Mutant of CacheGet: the entry expires as soon as ttl has elapsed (>= for >).
CacheGetExpireAtTtl(s, k, t, ttl) ==
    IF k \notin DOMAIN s
    THEN [hit |-> FALSE, value |-> Undefined, store |-> s]
    ELSE IF t - s[k].time >= ttl
         THEN [hit |-> FALSE, value |-> Undefined, store |-> MapDelete(s, k)]
         ELSE [hit |-> TRUE, value |-> s[k].value, store |-> s]

\* Cache.get(key) at time t: the value returned and the store afterwards.
CacheGet(s, k, t, ttl) ==
    IF k \notin DOMAIN s
    THEN [hit |-> FALSE, value |-> Undefined, store |-> s]
    ELSE IF t - s[k].time > ttl
         THEN [hit |-> FALSE, value |-> Undefined, store |-> MapDelete(s, k)]
         ELSE [hit |-> TRUE, value |-> s[k].value, store |-> s]

\* Cache.set(key, value) at time t
CacheSet(s, k, v, t) == MapSet(s, k, [value |-> v, time |-> t])

\* Cache.clear()
CacheClear(s) == EmptyStore

(***************************************************************************)
(* SpecCache: any sequence of set / get / clear on one Cache instance.     *)
(***************************************************************************)
MaxCacheTicks == 3
CacheKeys == {"k1", "k2"}
CacheValues == {"v1", "v2"}

NoOp == [op |-> "none"]
NoSet == [value |-> Undefined, time |-> -1, over |-> FALSE]

\* The clock advances by one second or by the instance's ttl, at most
\* MaxCacheTicks times: the number of advances that lead to instant t.
CacheAdvances(name) == {1, CacheTtl(name)}
TicksTo(name, t) == (t % CacheTtl(name)) + (t \div CacheTtl(name))

IdleChart == /\ warmList = <<>>
             /\ warmer = [pc |-> "off", cursor |-> 0, fired |-> 0, requests |-> 0]
             /\ upFailed = FALSE
IdleHop == hopIn = <<>> /\ hopOut = <<>> /\ spotCall = [pc |-> "idle"]
IdleAdapter == /\ IS_CHECKPOINT = FALSE /\ registry = <<>>
               /\ calls = <<>> /\ settled = <<>>
IdleFill == /\ fillIn = [candles |-> <<>>, maxTimestamp |-> 0, nowSeconds |-> 0]
            /\ fillOut = <<>>

InitCache ==
    /\ now = 0
    /\ inst \in CacheNames
    /\ caches = [c \in CacheNames |-> EmptyStore]
    /\ lastSet = [k \in CacheKeys |-> NoSet]
    /\ last = NoOp
    /\ IdleChart /\ IdleHop /\ IdleFill /\ IdleAdapter

\* Time passes between two operations.
CacheTick ==
    /\ \E d \in CacheAdvances(inst) :
          /\ TicksTo(inst, now + d) <= MaxCacheTicks
          /\ now' = now + d
    /\ last' = NoOp
    /\ UNCHANGED <<caches, inst, lastSet>>
    /\ UNCHANGED <<chartVars, hopVars, fillVars, adapterVars>>

DoSet ==
    \E k \in CacheKeys, v \in CacheValues :
       /\ caches' = [caches EXCEPT ![inst] = CacheSet(@, k, v, now)]
       /\ lastSet' = [lastSet EXCEPT ![k] = [value |-> v, time |-> now,
                                              over |-> k \in DOMAIN caches[inst]]]
       /\ last' = [op |-> "set", key |-> k, result |-> Undefined, at |-> now]
       /\ UNCHANGED <<now, inst>>
       /\ UNCHANGED <<chartVars, hopVars, fillVars, adapterVars>>

DoGet ==
    \E k \in CacheKeys :
       LET r == CacheGet(caches[inst], k, now, CacheTtl(inst)) IN
       /\ caches' = [caches EXCEPT ![inst] = r.store]
       /\ last' = [op |-> "get", key |-> k, result |-> r.value, at |-> now]
       /\ UNCHANGED <<now, inst, lastSet>>
       /\ UNCHANGED <<chartVars, hopVars, fillVars, adapterVars>>

DoClear ==
    /\ caches' = [caches EXCEPT ![inst] = CacheClear(@)]
    /\ lastSet' = [k \in CacheKeys |-> NoSet]
    /\ last' = [op |-> "clear", key |-> Undefined, result |-> Undefined, at |-> now]
    /\ UNCHANGED <<now, inst>>
    /\ UNCHANGED <<chartVars, hopVars, fillVars, adapterVars>>

NextCache == CacheTick \/ DoSet \/ DoGet \/ DoClear

SpecCache == InitCache /\ [][NextCache]_vars

\* C1: a get(k) performed when more than ttl has elapsed since the last set(k)
\* returns undefined, and after it k is no longer in the store.
C1_ExpiredGetMissesAndEvicts ==
    (/\ last.op = "get"
     /\ lastSet[last.key].time >= 0
     /\ last.at - lastSet[last.key].time > CacheTtl(inst))
    => (/\ last.result = Undefined
        /\ last.key \notin DOMAIN caches[inst])

\* A get of a key whose last set is older than ttl has just been performed.
C1_Witness ==
    /\ last.op = "get"
    /\ lastSet[last.key].time >= 0
    /\ last.at - lastSet[last.key].time > CacheTtl(inst)
    /\ last.result = Undefined

\* C2: whenever get(k) returns a value, it is the value of the most recent
\* set(k, .), made at most ttl before the get; the age counts from that most
\* recent set, and an entry read up to and including ttl after it is served.
C2_GetServesLatestFreshSet ==
    last.op = "get" =>
       /\ (last.result # Undefined =>
              /\ lastSet[last.key].time >= 0
              /\ last.result = lastSet[last.key].value
              /\ last.at - lastSet[last.key].time <= CacheTtl(inst))
       /\ ((/\ lastSet[last.key].time >= 0
            /\ last.at - lastSet[last.key].time <= CacheTtl(inst))
           => last.result = lastSet[last.key].value)

\* An overwritten entry is read exactly ttl after the overwrite and served.
C2_Witness ==
    /\ last.op = "get"
    /\ lastSet[last.key].over
    /\ last.at - lastSet[last.key].time = CacheTtl(inst)
    /\ last.result = lastSet[last.key].value

(***************************************************************************)
(* Warmer (utils/warmer.js) and chart handler (routes/unified-chart.js)    *)
(***************************************************************************)
WARMER_RETENTION_DAYS == 7
\* WARMER_MAX_ENTRIES is read from the environment (default 50); the model
\* runs with a small capacity.
WARMER_MAX_ENTRIES == 2

REFRESH_INTERVAL == WARMER_INTERVAL_SEC
RETENTION == WARMER_RETENTION_DAYS * 24 * 3600

MaxClockSteps == 6
MaxRequests == 2

\* The clock is observed three times per warmer interval.
ClockStep == WARMER_INTERVAL_SEC \div 3

Proposals == {"p1"}
MinTimestamps == {0}
MaxTimestamps == {1000}

\* req.params / req.query as parsed at the top of the handler
Requests == [proposalId : Proposals, minTimestamp : MinTimestamps,
             maxTimestamp : MaxTimestamps, includeSpot : BOOLEAN,
             applyCurrencyRate : BOOLEAN]

\* `${proposalId}:${minTimestamp}:${maxTimestamp}:${includeSpot}:${applyCurrencyRate}`
CacheKey(q) == <<q.proposalId, q.minTimestamp, q.maxTimestamp,
                 q.includeSpot, q.applyCurrencyRate>>

\* resolved.coingeckoTicker || null
Ticker(pid) == IF pid = "p1" THEN "PNK/sDAI-hour-500-xdai" ELSE Undefined

\* What the upstreams answer to one computation: fail is the awaited call
\* that rejects ("resolve": resolveProposalAdapter, "pools": the pool list
\* fetch, both before the parallel fetch; "yesCandles" / "noCandles": a
\* fetchCandles inside Promise.all), spot is what fetchSpotCandles resolves
\* with (candles, or none with an error).
Upstreams == [fail : {"none", "resolve", "pools", "yesCandles", "noCandles"},
              spot : {"ok", "empty"}]

\* Mutant of WarmParams: the request's own includeSpot is registered.
WarmParamsKeepSpot(q) ==
    [proposalId |-> q.proposalId, minTimestamp |-> q.minTimestamp,
     maxTimestamp |-> q.maxTimestamp, includeSpot |-> q.includeSpot]

\* The params object handed to registerForWarming
WarmParams(q) ==
    [proposalId |-> q.proposalId, minTimestamp |-> q.minTimestamp,
     maxTimestamp |-> q.maxTimestamp, includeSpot |-> FALSE]

\* refreshChart's mock request, as the handler parses it: includeSpot is
\* written as 'true' / 'false' and read back with !== 'false'; the mock
\* query has no applyCurrencyRate, so (undefined === 'true') is false.
refreshChart(params) ==
    LET text == IF params.includeSpot THEN "true" ELSE "false" IN
    [proposalId |-> params.proposalId, minTimestamp |-> params.minTimestamp,
     maxTimestamp |-> params.maxTimestamp, includeSpot |-> (text # "false"),
     applyCurrencyRate |-> FALSE]

WarmKeys(wl) == {wl[i].key : i \in 1..Len(wl)}
WarmIndex(wl, key) == CHOOSE i \in 1..Len(wl) : wl[i].key = key
SeqRemove(wl, j) == [i \in 1..(Len(wl) - 1) |-> IF i < j THEN wl[i] ELSE wl[i + 1]]

\* Mutant of OldestIndex: the comparison is reversed, the most recently seen
\* entry is chosen.
OldestIndexNewest(wl) ==
    CHOOSE j \in 1..Len(wl) :
       /\ \A i \in 1..Len(wl) : wl[j].lastSeen >= wl[i].lastSeen
       /\ \A i \in 1..(j - 1) : wl[i].lastSeen < wl[j].lastSeen

\* The loop of registerForWarming: the first entry, in Map order, whose
\* lastSeen is below every earlier one's and not above any later one's.
OldestIndex(wl) ==
    CHOOSE j \in 1..Len(wl) :
       /\ \A i \in 1..Len(wl) : wl[j].lastSeen <= wl[i].lastSeen
       /\ \A i \in 1..(j - 1) : wl[i].lastSeen > wl[j].lastSeen

\* Mutant of registerForWarming: a key already listed is registered anew, its
\* registeredAt restarts.
registerForWarmingRestart(wl, key, params, t) ==
    IF key \in WarmKeys(wl)
    THEN [list |-> [wl EXCEPT ![WarmIndex(wl, key)].lastSeen = t,
                              ![WarmIndex(wl, key)].registeredAt = t],
          evicted |-> 0, kind |-> "bump"]
    ELSE LET full == Len(wl) >= WARMER_MAX_ENTRIES /\ Len(wl) > 0
             j == IF full THEN OldestIndex(wl) ELSE 0
             kept == IF full THEN SeqRemove(wl, j) ELSE wl
         IN [list |-> Append(kept, [key |-> key, params |-> params,
                                    lastSeen |-> t, registeredAt |-> t]),
             evicted |-> j, kind |-> "new"]

\* Mutant of registerForWarming: a new key is added without making room.
registerForWarmingNoEvict(wl, key, params, t) ==
    IF key \in WarmKeys(wl)
    THEN [list |-> [wl EXCEPT ![WarmIndex(wl, key)].lastSeen = t],
          evicted |-> 0, kind |-> "bump"]
    ELSE [list |-> Append(wl, [key |-> key, params |-> params,
                               lastSeen |-> t, registeredAt |-> t]),
          evicted |-> 0, kind |-> "new"]

\* registerForWarming(cacheKey, params) at time t: the list afterwards and
\* the index evicted (0: none).
registerForWarming(wl, key, params, t) ==
    IF key \in WarmKeys(wl)
    THEN [list |-> [wl EXCEPT ![WarmIndex(wl, key)].lastSeen = t],
          evicted |-> 0, kind |-> "bump"]
    ELSE LET full == Len(wl) >= WARMER_MAX_ENTRIES /\ Len(wl) > 0
             j == IF full THEN OldestIndex(wl) ELSE 0
             kept == IF full THEN SeqRemove(wl, j) ELSE wl
         IN [list |-> Append(kept, [key |-> key, params |-> params,
                                    lastSeen |-> t, registeredAt |-> t]),
             evicted |-> j, kind |-> "new"]

\* One run of handleUnifiedChartRequest for request q at time t, started by
\* `by` ("user", or "warmer" through refreshChart), with upstream answers up.
handleUnifiedChartRequest(q, by, up, t, resp, spot, wl) ==
    LET key == CacheKey(q)
        g == CacheGet(resp, key, t, CacheTtl("response"))
        ticker == Ticker(q.proposalId)
        wantSpot == q.includeSpot /\ ticker # Undefined
        sg == CacheGet(spot, ticker, t, CacheTtl("spot"))
        \* the spot branch of Promise.all runs unless the handler threw before it
        spotRuns == wantSpot /\ up.fail \notin {"resolve", "pools"}
        spotFetched == spotRuns /\ ~sg.hit
        spotData == IF ~wantSpot THEN "none"
                    ELSE IF sg.hit THEN sg.value ELSE up.spot
        spot1 == IF ~spotRuns THEN spot
                 ELSE IF sg.hit THEN sg.store
                 ELSE IF up.spot = "ok" THEN CacheSet(sg.store, ticker, "ok", t)
                 ELSE sg.store
        reg == registerForWarming(wl, key, WarmParams(q), t)
        obs == [op |-> "chart", by |-> by, key |-> key, at |-> t,
                includeSpot |-> q.includeSpot, inWarm |-> key \in WarmKeys(wl)]
    IN IF g.hit
       THEN [resp |-> g.store, spot |-> spot, list |-> wl, evicted |-> 0,
             failed |-> FALSE,
             obs |-> obs @@
                     [outcome |-> "HIT", failure |-> "none",
                      served |-> g.value.spot,
                      spotFetched |-> FALSE, registered |-> "none",
                      evictedKey |-> <<>>]]
       ELSE IF up.fail # "none"
       THEN [resp |-> g.store, spot |-> spot1, list |-> wl, evicted |-> 0,
             failed |-> TRUE,
             obs |-> obs @@ [outcome |-> "ERR", failure |-> up.fail,
                             served |-> "none",
                             spotFetched |-> spotFetched, registered |-> "none",
                             evictedKey |-> <<>>]]
       ELSE [resp |-> CacheSet(g.store, key, [spot |-> spotData], t),
             spot |-> spot1, list |-> reg.list, evicted |-> reg.evicted,
             failed |-> spotFetched /\ up.spot = "empty",
             obs |-> obs @@ [outcome |-> "MISS",
                             failure |-> IF spotFetched /\ up.spot = "empty"
                                         THEN "spot" ELSE "none",
                             served |-> spotData,
                             spotFetched |-> spotFetched, registered |-> reg.kind,
                             evictedKey |-> IF reg.evicted = 0 THEN <<>>
                                            ELSE wl[reg.evicted].key]]

\* The Map iterator of a running warmer pass: `cursor` counts the entries
\* already visited, which are the first ones of the list; deleting one of
\* them moves the iterator's place with it.
CursorAfter(cursor, evicted) ==
    IF evicted # 0 /\ evicted <= cursor THEN cursor - 1 ELSE cursor

\* Mutant of TryRefresh: nothing catches the failure, the callback ends.
TryRefreshRethrow(w, r, t) ==
    IF r.obs.outcome = "ERR"
    THEN [w EXCEPT !.cursor = @ + 1, !.pc = "idle", !.erredAt = t]
    ELSE [w EXCEPT !.cursor = CursorAfter(@ + 1, r.evicted), !.pc = "await"]

\* The body of the refresh loop around `await refreshFn(entry.params)` at
\* time t, r being what the handler did: whether the refresh succeeded or
\* ended in an error (logged, erredAt keeps the time of the last one), the
\* loop goes on with the next entry.
TryRefresh(w, r, t) ==
    [w EXCEPT !.cursor = CursorAfter(@ + 1, r.evicted), !.pc = "await",
              !.erredAt = IF r.obs.outcome = "ERR" THEN t ELSE @]

\* Mutant of Cleanup: the age is measured from lastSeen.
CleanupByLastSeen(wl, t) == SelectSeq(wl, LAMBDA e : ~(t - e.lastSeen > RETENTION))

\* The cleanup loop of the timer callback at time t
Cleanup(wl, t) == SelectSeq(wl, LAMBDA e : ~(t - e.registeredAt > RETENTION))

InitChart ==
    /\ now = 0
    /\ inst = "response"
    /\ caches = [c \in CacheNames |-> EmptyStore]
    /\ lastSet = [k \in CacheKeys |-> NoSet]
    /\ last = NoOp
    /\ warmList = <<>>
    /\ warmer = [pc |-> "idle", cursor |-> 0, fired |-> 0, requests |-> 0,
                 since |-> 0, erredAt |-> 0]
    /\ upFailed = FALSE
    /\ IdleHop /\ IdleFill /\ IdleAdapter

\* Time passes while no warmer pass is running; the timer fires on time.
\* The clock is followed for MaxClockSteps steps from warmer.since on.
ChartTick ==
    /\ warmer.pc = "idle"
    /\ now + ClockStep <= warmer.fired + REFRESH_INTERVAL
    /\ now + ClockStep <= warmer.since + MaxClockSteps * ClockStep
    /\ now' = now + ClockStep
    /\ last' = NoOp
    /\ UNCHANGED <<caches, inst, lastSet, chartVars, hopVars, fillVars, adapterVars>>

\* A user's GET /api/v2/proposals/:proposalId/chart
ChartRequest ==
    \E q \in Requests, up \in Upstreams :
       LET r == handleUnifiedChartRequest(q, "user", up, now, caches["response"],
                                          caches["spot"], warmList) IN
       /\ warmer.pc \in {"idle", "await"}
       /\ warmer.requests < MaxRequests
       /\ caches' = [caches EXCEPT !["response"] = r.resp, !["spot"] = r.spot]
       /\ warmList' = r.list
       /\ warmer' = [warmer EXCEPT !.cursor = CursorAfter(@, r.evicted),
                                   !.requests = @ + 1]
       /\ upFailed' = (upFailed \/ r.failed)
       /\ last' = r.obs @@ [entryKey |-> r.obs.key]
       /\ UNCHANGED <<now, inst, lastSet, hopVars, fillVars, adapterVars>>

\* The setInterval callback starts: cleanup, then the refresh loop begins.
\* The observation keeps the entries the cleanup deleted.
WarmerTick ==
    /\ warmer.pc = "idle"
    /\ now = warmer.fired + REFRESH_INTERVAL
    /\ warmList' = Cleanup(warmList, now)
    /\ warmer' = [warmer EXCEPT !.fired = now, !.cursor = 0,
                     !.pc = IF Len(warmList') = 0 THEN "idle" ELSE "sync"]
    /\ last' = [op |-> "cleanup", at |-> now,
                expired |-> {warmList[i] : i \in 1..Len(warmList)}
                            \ {warmList'[i] : i \in 1..Len(warmList')}]
    /\ UNCHANGED <<now, caches, inst, lastSet, upFailed, hopVars, fillVars, adapterVars>>

\* The refresh loop finds its next entry still cached and goes on.
WarmerSkip ==
    /\ warmer.pc \in {"sync", "await"}
    /\ warmer.cursor < Len(warmList)
    /\ LET e == warmList[warmer.cursor + 1]
           g == CacheGet(caches["response"], e.key, now, CacheTtl("response")) IN
       /\ g.hit
       /\ caches' = [caches EXCEPT !["response"] = g.store]
    /\ warmer' = [warmer EXCEPT !.cursor = @ + 1, !.pc = "sync"]
    /\ last' = NoOp
    /\ UNCHANGED <<now, inst, lastSet, warmList, upFailed, hopVars, fillVars, adapterVars>>

\* The refresh loop finds its next entry's slot empty and awaits refreshFn.
WarmerRefresh ==
    /\ warmer.pc \in {"sync", "await"}
    /\ warmer.cursor < Len(warmList)
    /\ \E up \in Upstreams :
       LET e == warmList[warmer.cursor + 1]
           g == CacheGet(caches["response"], e.key, now, CacheTtl("response"))
           r == handleUnifiedChartRequest(refreshChart(e.params), "warmer", up, now,
                                          g.store, caches["spot"], warmList) IN
       /\ ~g.hit
       /\ caches' = [caches EXCEPT !["response"] = r.resp, !["spot"] = r.spot]
       /\ warmList' = r.list
       /\ warmer' = TryRefresh(warmer, r, now)
       /\ upFailed' = (upFailed \/ r.failed)
       /\ last' = r.obs @@ [entryKey |-> e.key, entryRegisteredAt |-> e.registeredAt]
    /\ UNCHANGED <<now, inst, lastSet, hopVars, fillVars, adapterVars>>

\* The refresh loop has visited every entry: the callback returns.
WarmerDone ==
    /\ warmer.pc \in {"sync", "await"}
    /\ warmer.cursor >= Len(warmList)
    /\ warmer' = [warmer EXCEPT !.pc = "idle"]
    /\ last' = NoOp
    /\ UNCHANGED <<now, caches, inst, lastSet, warmList, upFailed, hopVars, fillVars, adapterVars>>

NextChart ==
    ChartTick \/ ChartRequest \/ WarmerTick \/ WarmerSkip \/ WarmerRefresh \/ WarmerDone

SpecChart == InitChart /\ [][NextChart]_vars

\* C3: with every upstream call succeeding, a user's request for a tuple that
\* is in the warm list is a response-cache HIT.
C3_WarmEntryAlwaysHit ==
    (/\ last.op = "chart"
     /\ last.by = "user"
     /\ last.inWarm
     /\ ~upFailed)
    => last.outcome = "HIT"

\* C4: after the warmer refreshed, without error, a warm-list entry registered
\* under key K whose slot was empty, the response cache holds a fresh entry
\* under K.
C4_RefreshRepopulatesKey ==
    (/\ last.op = "chart"
     /\ last.by = "warmer"
     /\ last.outcome # "ERR")
    => /\ last.entryKey \in DOMAIN caches["response"]
       /\ caches["response"][last.entryKey].time = last.at

\* C5: a registration of a new key into a full warm list removes exactly one
\* entry, one of minimal lastSeen, keeps every other entry and admits the new
\* one.
C5_EvictsOneOldest ==
    [][(/\ last'.op = "chart"
        /\ last'.registered = "new"
        /\ Len(warmList) = WARMER_MAX_ENTRIES)
       => \E j \in 1..Len(warmList) :
             /\ \A i \in 1..Len(warmList) : warmList[j].lastSeen <= warmList[i].lastSeen
             /\ Len(warmList') = Len(warmList)
             /\ \A i \in (1..Len(warmList)) \ {j} :
                   \E m \in 1..Len(warmList') : warmList'[m] = warmList[i]
             /\ \E m \in 1..Len(warmList') :
                   /\ warmList'[m].key = last'.key
                   /\ warmList'[m].lastSeen = now
                   /\ warmList'[m].registeredAt = now
             /\ warmList[j].key \notin WarmKeys(warmList')]_vars

\* A new key has just been admitted to a full list and an entry evicted for it.
C5_Witness ==
    /\ last.op = "chart"
    /\ last.registered = "new"
    /\ last.evictedKey # <<>>
    /\ Len(warmList) = WARMER_MAX_ENTRIES

\* C6: a request is never served a cached result whose spot fetch had failed
\* or come back empty: the next request re-attempts the spot fetch.
C6_EmptySpotNeverServedFromCache ==
    (/\ last.op = "chart"
     /\ last.outcome = "HIT")
    => last.served # "empty"

\* C7: every entry of the warm list carries includeSpot = false, and no run
\* of the handler started by the warmer calls the spot provider.
C7_WarmerNeverFetchesSpot ==
    /\ \A i \in 1..Len(warmList) : ~warmList[i].params.includeSpot
    /\ (last.op = "chart" /\ last.by = "warmer")
       => (~last.includeSpot /\ ~last.spotFetched)

\* The warmer has just recomputed an entry that a request with
\* includeSpot = true had registered.
C7_Witness ==
    /\ last.op = "chart"
    /\ last.by = "warmer"
    /\ last.outcome = "MISS"
    /\ last.entryKey[4]

\* C17: a chart computation in which a single sub-computation fails (the
\* pool list fetch, the YES or the NO candle fetch, the spot series) is still
\* answered as a successful response, never as an error.
C17_SingleFailureStillServed ==
    (/\ last.op = "chart"
     /\ last.failure \in {"pools", "yesCandles", "noCandles", "spot"})
    => last.outcome = "MISS"

(***************************************************************************)
(* Multi-hop combination (services/spot-price.js)                          *)
(***************************************************************************)
\* A price is an exact fraction num / den in lowest terms; the code's
\* floating-point numbers are idealised as rationals.
RECURSIVE GCD(_, _)
GCD(a, b) == IF b = 0 THEN a ELSE GCD(b, a % b)
Frac(n, d) == [num |-> n \div GCD(n, d), den |-> d \div GCD(n, d)]
One == Frac(1, 1)
\* product * price
Times(a, b) == Frac(a.num * b.num, a.den * b.den)

MaxHopTime == 3
HopCounts == {0, 1, 2, 3}
HopValues == {Frac(2, 1), Frac(3, 1)}

\* [...set].sort((a, b) => a - b)
RECURSIVE SortAsc(_)
SortAsc(S) ==
    IF S = {} THEN <<>>
    ELSE LET m == CHOOSE x \in S : \A y \in S : x <= y
         IN <<m>> \o SortAsc(S \ {m})

\* The timestamps of one hop's candles
HopTimes(candles) == {candles[i].time : i \in 1..Len(candles)}

\* candles.forEach(c => map.set(c.time, c.value)): the last candle of a
\* timestamp is the one the map keeps
HopMap(candles) ==
    [t \in HopTimes(candles) |->
        candles[CHOOSE i \in 1..Len(candles) :
                   /\ candles[i].time = t
                   /\ \A j \in 1..Len(candles) : candles[j].time = t => j <= i].value]

\* lastKnownPrices[i] === null
NullPrice == [known |-> FALSE, price |-> Frac(0, 1)]

\* Mutant of UpdateLastKnown: a hop's price is taken once and never updated.
UpdateLastKnownOnce(lk, maps, time) ==
    [i \in 1..Len(maps) |->
        IF time \in DOMAIN maps[i] /\ ~lk[i].known
        THEN [known |-> TRUE, price |-> maps[i][time]]
        ELSE lk[i]]

\* Mutant of UpdateLastKnown: no carry-forward, a hop without a candle at this
\* timestamp counts as not initialised.
UpdateLastKnownNoCarry(lk, maps, time) ==
    [i \in 1..Len(maps) |->
        IF time \in DOMAIN maps[i]
        THEN [known |-> TRUE, price |-> maps[i][time]]
        ELSE NullPrice]

\* The inner loop's update of lastKnownPrices at one timestamp
UpdateLastKnown(lk, maps, time) ==
    [i \in 1..Len(maps) |->
        IF time \in DOMAIN maps[i]
        THEN [known |-> TRUE, price |-> maps[i][time]]
        ELSE lk[i]]

\* lastKnownPrices.reduce((product, price) => product * price, 1)
RECURSIVE ReduceProduct(_, _)
ReduceProduct(lk, n) ==
    IF n = 0 THEN One ELSE Times(ReduceProduct(lk, n - 1), lk[n].price)

\* for (const time of sortedTimes) { ... }, from position i on
RECURSIVE HopLoop(_, _, _, _, _)
HopLoop(times, maps, i, lk, result) ==
    IF i > Len(times) THEN result
    ELSE LET lk1 == UpdateLastKnown(lk, maps, times[i])
             allHopsInitialized == \A h \in 1..Len(maps) : lk1[h].known
         IN HopLoop(times, maps, i + 1, lk1,
                    IF allHopsInitialized
                    THEN Append(result, [time |-> times[i],
                                         value |-> ReduceProduct(lk1, Len(lk1))])
                    ELSE result)

combineHopCandles(hopCandlesArray) ==
    IF Len(hopCandlesArray) = 0 THEN <<>>
    ELSE IF Len(hopCandlesArray) = 1 THEN hopCandlesArray[1]
    ELSE LET sortedTimes == SortAsc(UNION {HopTimes(hopCandlesArray[h]) :
                                             h \in 1..Len(hopCandlesArray)})
             hopMaps == [h \in 1..Len(hopCandlesArray) |-> HopMap(hopCandlesArray[h])]
         IN HopLoop(sortedTimes, hopMaps, 1,
                    [h \in 1..Len(hopCandlesArray) |-> NullPrice], <<>>)

(***************************************************************************)
(* SpecHop: combineHopCandles applied to hop series as fetchHopCandles     *)
(* returns them (de-duplicated and sorted ascending by time).              *)
(***************************************************************************)
HopSeriesOf(S, f) ==
    LET ts == SortAsc(S) IN [i \in 1..Len(ts) |-> [time |-> ts[i], value |-> f[ts[i]]]]

HopSeries ==
    UNION {{HopSeriesOf(S, f) : f \in [S -> HopValues]} : S \in SUBSET (1..MaxHopTime)}

HopArrays == UNION {[1..n -> HopSeries] : n \in HopCounts}

IdleCache == /\ now = 0
             /\ inst = "response"
             /\ caches = [c \in CacheNames |-> EmptyStore]
             /\ lastSet = [k \in CacheKeys |-> NoSet]

InitHop ==
    /\ hopIn \in HopArrays
    /\ hopOut = <<>>
    /\ spotCall = [pc |-> "idle"]
    /\ last = NoOp
    /\ IdleCache /\ IdleChart /\ IdleFill /\ IdleAdapter

Combine ==
    /\ last.op = "none"
    /\ hopOut' = combineHopCandles(hopIn)
    /\ last' = [op |-> "combine"]
    /\ UNCHANGED <<hopIn, spotCall, cacheVars, chartVars, fillVars, adapterVars>>

NextHop == Combine

SpecHop == InitHop /\ [][NextHop]_vars

\* A hop's carried-forward value at t: its value at its greatest timestamp <= t.
HasCarried(candles, t) == \E i \in 1..Len(candles) : candles[i].time <= t
Carried(candles, t) ==
    candles[CHOOSE i \in 1..Len(candles) :
               /\ candles[i].time <= t
               /\ \A j \in 1..Len(candles) :
                     candles[j].time <= t => candles[j].time <= candles[i].time].value

RECURSIVE CarriedProduct(_, _, _)
CarriedProduct(hops, n, t) ==
    IF n = 0 THEN One ELSE Times(CarriedProduct(hops, n - 1, t), Carried(hops[n], t))

\* C8: for two or more hops, every emitted point (t, v) has v = the product
\* over all hops of the hop's carried-forward value at t.
C8_CompositeIsCarriedProduct ==
    (last.op = "combine" /\ Len(hopIn) >= 2) =>
       \A p \in 1..Len(hopOut) :
          /\ \A h \in 1..Len(hopIn) : HasCarried(hopIn[h], hopOut[p].time)
          /\ hopOut[p].value = CarriedProduct(hopIn, Len(hopIn), hopOut[p].time)

\* A point was emitted at a timestamp where some hop has no candle of its own
\* and that hop's price had changed before.
C8_Witness ==
    /\ last.op = "combine"
    /\ Len(hopIn) >= 2
    /\ \E p \in 1..Len(hopOut), h \in 1..Len(hopIn) :
          /\ hopOut[p].time \notin HopTimes(hopIn[h])
          /\ Len(hopIn[h]) >= 2
          /\ hopIn[h][1].value # Carried(hopIn[h], hopOut[p].time)

\* The union timestamps at or after which every hop has started
StartedTimes(hops) ==
    {t \in UNION {HopTimes(hops[h]) : h \in 1..Len(hops)} :
        \A h \in 1..Len(hops) : HasCarried(hops[h], t)}

\* C9: the emitted timestamps are exactly the union timestamps at which every
\* hop has a point at or before, each once and in ascending order; an empty
\* hop makes the composite empty.
C9_EmittedTimesAreStartedUnion ==
    last.op = "combine" =>
       /\ {hopOut[p].time : p \in 1..Len(hopOut)} = StartedTimes(hopIn)
       /\ \A p \in 1..(Len(hopOut) - 1) : hopOut[p].time < hopOut[p + 1].time
       /\ ((\E h \in 1..Len(hopIn) : Len(hopIn[h]) = 0) => hopOut = <<>>)

\* A union timestamp before every hop had started was left out, and a later
\* one was emitted although some hop has no candle there.
C9_Witness ==
    /\ last.op = "combine"
    /\ Len(hopIn) >= 2
    /\ \E t \in UNION {HopTimes(hopIn[h]) : h \in 1..Len(hopIn)} :
          t \notin {hopOut[p].time : p \in 1..Len(hopOut)}
    /\ \E p \in 1..Len(hopOut), h \in 1..Len(hopIn) :
          hopOut[p].time \notin HopTimes(hopIn[h])

(***************************************************************************)
(* Candle forward-fill (routes/graphql-proxy.js, lib/index.js)             *)
(*                                                                         *)
(* A candle is [periodStartUnix, close]; periodStartUnix is kept as the    *)
(* integer that parseInt reads from the subgraph's decimal string and that *)
(* String writes back for a synthesized candle.                            *)
(***************************************************************************)
ONE_HOUR == 3600

\* Mutant of GapFill: the loop stops one bucket early (hour < gapHours - 1).
GapFillShort(current, nextTime, effectiveMax) ==
    LET currentTime == current.periodStartUnix
        diff == nextTime - currentTime
        hours == {h \in 1..(diff \div ONE_HOUR) : (h + 1) * ONE_HOUR < diff}
        kept == {h \in hours : currentTime + h * ONE_HOUR <= effectiveMax}
    IN [h \in 1..Cardinality(kept) |->
           [periodStartUnix |-> currentTime + h * ONE_HOUR, close |-> current.close]]

\* Mutant of GapFill: the fillTime <= effectiveMax test is dropped.
GapFillNoCeiling(current, nextTime, effectiveMax) ==
    LET currentTime == current.periodStartUnix
        diff == nextTime - currentTime
        hours == {h \in 1..(diff \div ONE_HOUR) : h * ONE_HOUR < diff}
    IN [h \in 1..Cardinality(hours) |->
           [periodStartUnix |-> currentTime + h * ONE_HOUR, close |-> current.close]]

\* The buckets synthesized between a candle and the next one:
\* gapHours = (nextTime - currentTime) / ONE_HOUR, and for hour = 1 while
\* hour < gapHours the bucket currentTime + hour * ONE_HOUR, if <= effectiveMax.
GapFill(current, nextTime, effectiveMax) ==
    LET currentTime == current.periodStartUnix
        diff == nextTime - currentTime
        hours == {h \in 1..(diff \div ONE_HOUR) : h * ONE_HOUR < diff}
        kept == {h \in hours : currentTime + h * ONE_HOUR <= effectiveMax}
    IN [h \in 1..Cardinality(kept) |->
           [periodStartUnix |-> currentTime + h * ONE_HOUR, close |-> current.close]]

\* Mutant of TailFill: the loop runs while fillTime < effectiveMax.
TailFillOneShort(current, effectiveMax) ==
    LET currentTime == current.periodStartUnix
        n == IF effectiveMax > currentTime + ONE_HOUR
             THEN (effectiveMax - currentTime - 1) \div ONE_HOUR ELSE 0
    IN [h \in 1..n |->
           [periodStartUnix |-> currentTime + h * ONE_HOUR, close |-> current.close]]

\* The buckets synthesized after the last candle: fillTime = currentTime +
\* ONE_HOUR, stepping by ONE_HOUR while fillTime <= effectiveMax.
TailFill(current, effectiveMax) ==
    LET currentTime == current.periodStartUnix
        n == IF effectiveMax >= currentTime + ONE_HOUR
             THEN (effectiveMax - currentTime) \div ONE_HOUR ELSE 0
    IN [h \in 1..n |->
           [periodStartUnix |-> currentTime + h * ONE_HOUR, close |-> current.close]]

\* for (let i = 0; i < candles.length; i++) { ... }, from candle i on
RECURSIVE FillLoop(_, _, _, _)
FillLoop(candles, effectiveMax, i, filled) ==
    IF i > Len(candles) THEN filled
    ELSE LET current == candles[i]
             own == IF current.periodStartUnix <= effectiveMax
                    THEN <<current>> ELSE <<>>
             more == IF i < Len(candles)
                     THEN GapFill(current, candles[i + 1].periodStartUnix, effectiveMax)
                     ELSE TailFill(current, effectiveMax)
         IN FillLoop(candles, effectiveMax, i + 1, filled \o own \o more)

\* Mutant of forwardFillCandles: the early return also covers a single candle
\* (candles.length <= 1).
forwardFillCandlesSingleUnchanged(candles, maxTimestamp, nowSeconds) ==
    IF Len(candles) <= 1 THEN candles
    ELSE FillLoop(candles, Min(maxTimestamp, nowSeconds), 1, <<>>)

\* forwardFillCandles(candles, maxTimestamp) run when Date.now()/1000 floors
\* to nowSeconds
forwardFillCandles(candles, maxTimestamp, nowSeconds) ==
    IF Len(candles) = 0 THEN candles
    ELSE FillLoop(candles, Min(maxTimestamp, nowSeconds), 1, <<>>)

(***************************************************************************)
(* SpecFill: forwardFillCandles applied to series with strictly increasing *)
(* periodStartUnix, on a half-hour grid so that unaligned gaps occur.      *)
(***************************************************************************)
MaxFillSlot == 4
FillCloses == {10, 12}
FillGrid == ONE_HOUR \div 2
FillInstants == {k * FillGrid : k \in 0..MaxFillSlot}

FillSeriesOf(S, f) ==
    LET ts == SortAsc(S)
    IN [i \in 1..Len(ts) |-> [periodStartUnix |-> ts[i], close |-> f[ts[i]]]]

FillSeries ==
    UNION {{FillSeriesOf(S, f) : f \in [S -> FillCloses]} : S \in SUBSET FillInstants}

InitFill ==
    /\ fillIn \in [candles : FillSeries, maxTimestamp : FillInstants,
                   nowSeconds : FillInstants]
    /\ fillOut = <<>>
    /\ last = NoOp
    /\ IdleCache /\ IdleChart /\ IdleHop /\ IdleAdapter

Fill ==
    /\ last.op = "none"
    /\ fillOut' = forwardFillCandles(fillIn.candles, fillIn.maxTimestamp,
                                     fillIn.nowSeconds)
    /\ last' = [op |-> "fill"]
    /\ UNCHANGED <<fillIn, cacheVars, chartVars, hopVars, adapterVars>>

NextFill == Fill

SpecFill == InitFill /\ [][NextFill]_vars

\* C10: two consecutive points of the filled series are at most one bucket
\* width (ONE_HOUR) apart.
C10_NoGapAboveOneBucket ==
    last.op = "fill" =>
       \A i \in 1..(Len(fillOut) - 1) :
          fillOut[i + 1].periodStartUnix - fillOut[i].periodStartUnix <= ONE_HOUR

\* The input has two consecutive candles more than one bucket apart, both
\* under the ceiling, and buckets were synthesized between them.
C10_Witness ==
    /\ last.op = "fill"
    /\ Len(fillOut) > Len(fillIn.candles)
    /\ \E i \in 1..(Len(fillIn.candles) - 1) :
          /\ fillIn.candles[i + 1].periodStartUnix
                - fillIn.candles[i].periodStartUnix > ONE_HOUR
          /\ fillIn.candles[i + 1].periodStartUnix
                <= Min(fillIn.maxTimestamp, fillIn.nowSeconds)

(***************************************************************************)
(* SpecFillAny: forwardFillCandles applied to any series of at most        *)
(* MaxFillLen candles, in any order and with repeated timestamps.          *)
(***************************************************************************)
MaxFillLen == 3

FillAnySeries ==
    UNION {[1..n -> [periodStartUnix : FillInstants, close : {10}]] : n \in 0..MaxFillLen}

InitFillAny ==
    /\ fillIn \in [candles : FillAnySeries, maxTimestamp : FillInstants,
                   nowSeconds : FillInstants]
    /\ fillOut = <<>>
    /\ last = NoOp
    /\ IdleCache /\ IdleChart /\ IdleHop /\ IdleAdapter

SpecFillAny == InitFillAny /\ [][NextFill]_vars

FillCeiling == Min(fillIn.maxTimestamp, fillIn.nowSeconds)

\* C11: no point of the filled series, real or synthesized, has a
\* periodStartUnix above min(maxTimestamp, now), whatever the input series.
C11_NoPointAboveCeiling ==
    last.op = "fill" =>
       \A i \in 1..Len(fillOut) : fillOut[i].periodStartUnix <= FillCeiling

\* The ceiling cut something off: the input has a candle above the ceiling,
\* and the output still holds synthesized buckets.
C11_Witness ==
    /\ last.op = "fill"
    /\ \E i \in 1..Len(fillIn.candles) :
          fillIn.candles[i].periodStartUnix > FillCeiling
    /\ \E i \in 1..Len(fillOut) :
          \A j \in 1..Len(fillIn.candles) :
             fillIn.candles[j].periodStartUnix # fillOut[i].periodStartUnix

\* The points of a series, and the series being in strictly ascending order.
FillPoints(series) == {series[i] : i \in 1..Len(series)}
FillAscending(series) ==
    \A i \in 1..(Len(series) - 1) :
       series[i].periodStartUnix < series[i + 1].periodStartUnix

\* The buckets t_i + k * ONE_HOUR (k >= 1) after real candle i that lie
\* strictly before the next real candle or, after the last one, at or under
\* the ceiling; each carries the close of candle i.
SynthAfter(candles, i, ceiling) ==
    LET t == candles[i].periodStartUnix
        upTo == IF i < Len(candles) THEN candles[i + 1].periodStartUnix - 1
                ELSE ceiling
    IN {[periodStartUnix |-> t + k * ONE_HOUR, close |-> candles[i].close] :
           k \in {k \in 1..(MaxFillSlot + 1) : t + k * ONE_HOUR <= upTo}}

RealUnder(candles, ceiling) ==
    {c \in FillPoints(candles) : c.periodStartUnix <= ceiling}

\* C12 as stated: the output is the real candles at or under the ceiling plus
\* every bucket of SynthAfter, in ascending order.
C12_ExactFillAsStated ==
    last.op = "fill" =>
       /\ FillAscending(fillOut)
       /\ FillPoints(fillOut) =
             RealUnder(fillIn.candles, FillCeiling)
               \cup UNION {SynthAfter(fillIn.candles, i, FillCeiling) :
                              i \in 1..Len(fillIn.candles)}

\* C12 (amended): the output is, in ascending order, the real candles at or
\* under the ceiling plus the buckets of SynthAfter that are themselves at or
\* under the ceiling.
C12_ExactFillUnderCeiling ==
    last.op = "fill" =>
       /\ FillAscending(fillOut)
       /\ FillPoints(fillOut) =
             RealUnder(fillIn.candles, FillCeiling)
               \cup {c \in UNION {SynthAfter(fillIn.candles, i, FillCeiling) :
                                    i \in 1..Len(fillIn.candles)} :
                        c.periodStartUnix <= FillCeiling}

\* The claim's example: candles at 0 (close 10) and 7200 (close 12), ceiling
\* 7200, filled to 0/10, 3600/10, 7200/12.
C12_Witness ==
    /\ last.op = "fill"
    /\ fillIn.candles = <<[periodStartUnix |-> 0, close |-> 10],
                           [periodStartUnix |-> 2 * ONE_HOUR, close |-> 12]>>
    /\ FillCeiling = 2 * ONE_HOUR
    /\ fillOut = <<[periodStartUnix |-> 0, close |-> 10],
                    [periodStartUnix |-> ONE_HOUR, close |-> 10],
                    [periodStartUnix |-> 2 * ONE_HOUR, close |-> 12]>>

\* C13 as stated: a series of zero candles or of exactly one candle is
\* returned unchanged, for every ceiling.
C13_ShortSeriesUnchanged ==
    (last.op = "fill" /\ Len(fillIn.candles) <= 1) => fillOut = fillIn.candles

\* C13 (amended): a series of zero candles is returned unchanged; a series of
\* one candle at t is returned as that candle, if t is at or under the
\* ceiling, followed by the buckets t + k * ONE_HOUR at or under the ceiling,
\* each with the candle's close.
C13_ShortSeriesFilledToCeiling ==
    (last.op = "fill" /\ Len(fillIn.candles) <= 1) =>
       /\ Len(fillIn.candles) = 0 => fillOut = fillIn.candles
       /\ Len(fillIn.candles) = 1 =>
             LET c == fillIn.candles[1]
                 t == c.periodStartUnix
                 n == IF FillCeiling >= t THEN (FillCeiling - t) \div ONE_HOUR ELSE 0
             IN fillOut =
                  (IF t <= FillCeiling THEN <<c>> ELSE <<>>)
                    \o [k \in 1..n |->
                          [periodStartUnix |-> t + k * ONE_HOUR, close |-> c.close]]

\* A single candle at least one bucket under the ceiling was filled.
C13_Witness ==
    /\ last.op = "fill"
    /\ Len(fillIn.candles) = 1
    /\ fillIn.candles[1].periodStartUnix + ONE_HOUR <= FillCeiling
    /\ Len(fillOut) > 1

(***************************************************************************)
(* JavaScript values of the registry's JSON configuration                  *)
(*                                                                         *)
(* A value is [t, n, s]: its type, its number (numbers) and its characters *)
(* (strings).                                                              *)
(***************************************************************************)
JsUndefined == [t |-> "undefined", n |-> 0, s |-> <<>>]
JsNull == [t |-> "null", n |-> 0, s |-> <<>>]
JsNaN == [t |-> "NaN", n |-> 0, s |-> <<>>]
JsNum(n) == [t |-> "number", n |-> n, s |-> <<>>]
JsStr(s) == [t |-> "string", n |-> 0, s |-> s]

\* ToBoolean(x), as in `x ? a : b` and `x || b`
Truthy(x) == \/ x.t = "string" /\ x.s # <<>>
             \/ x.t = "number" /\ x.n # 0

DigitChars == <<"0", "1", "2", "3", "4", "5", "6", "7", "8", "9">>
Digits == {DigitChars[i] : i \in 1..10}
DigitVal(c) == (CHOOSE i \in 1..10 : DigitChars[i] = c) - 1

\* String(n) for a natural number n
RECURSIVE String(_)
String(n) ==
    IF n < 10 THEN <<DigitChars[n + 1]>>
    ELSE String(n \div 10) \o <<DigitChars[(n % 10) + 1]>>

\* The number read from the longest prefix of decimal digits of s, given that
\* s starts with a digit.
RECURSIVE DigitPrefix(_, _, _)
DigitPrefix(s, i, acc) ==
    IF i > Len(s) \/ s[i] \notin Digits THEN acc
    ELSE DigitPrefix(s, i + 1, acc * 10 + DigitVal(s[i]))

\* parseInt(x) for an integer or a string of letters and digits
parseInt(x) ==
    CASE x.t = "number" -> x
      [] x.t = "string" /\ x.s # <<>> /\ x.s[1] \in Digits -> JsNum(DigitPrefix(x.s, 1, 0))
      [] OTHER -> JsNaN

\* String.prototype.toLowerCase over the letters that occur
LowerChar(c) == CASE c = "Q" -> "q" [] c = "A" -> "a" [] c = "B" -> "b" [] OTHER -> c
toLowerCase(s) == [i \in 1..Len(s) |-> LowerChar(s[i])]

(***************************************************************************)
(* Registry adapter (adapters/registry-adapter.js)                         *)
(***************************************************************************)
AGGREGATOR_ADDRESS == <<"0", "x", "c", "5">>
OtherAggregator == <<"0", "x", "d", "6">>

ConfigKeys == {"coingecko_ticker", "closeTimestamp", "startCandleUnix",
               "twapStartTimestamp", "twapDurationHours", "twapDescription",
               "chain", "price_precision", "currency_stable_rate",
               "currency_stable_symbol"}

\* let config = {}
EmptyConfig == [isNull |-> FALSE, fields |-> [k \in ConfigKeys |-> JsUndefined]]

\* JSON.parse(text) of a metadata text that is not JSON ("invalid"), the JSON
\* text null, or a JSON object with the given members.
JSONparse(text) ==
    CASE text.kind = "invalid" -> [threw |-> TRUE, value |-> EmptyConfig]
      [] text.kind = "null" -> [threw |-> FALSE,
                                value |-> [isNull |-> TRUE, fields |-> EmptyConfig.fields]]
      [] OTHER -> [threw |-> FALSE, value |-> [isNull |-> FALSE, fields |-> text.fields]]

\* let config = {}; if (proposal?.metadata) { try { config = JSON.parse(...) } catch {} }
ParseMetadata(proposal) ==
    IF proposal.metadata.kind = "absent" THEN EmptyConfig
    ELSE LET r == JSONparse(proposal.metadata)
         IN IF r.threw THEN EmptyConfig ELSE r.value

OrNull(x) == IF Truthy(x) THEN x ELSE JsNull
ParseIntOrNull(x) == IF Truthy(x) THEN parseInt(x) ELSE JsNull

\* config.k ? parseInt(config.k) : null
NumericField(x) == ParseIntOrNull(x)

\* normalizeProposalResult(proposal, config): reading a member of a null
\* config throws a TypeError.
normalizeProposalResult(proposal, config) ==
    IF config.isNull THEN [threw |-> TRUE, value |-> JsNull]
    ELSE LET f == config.fields IN
      [threw |-> FALSE,
       value |->
         [proposalId |-> JsStr(toLowerCase(proposal.id)),
          proposalAddress |-> JsStr(toLowerCase(proposal.proposalAddress)),
          originalProposalId |-> JsStr(proposal.id),
          organizationId |-> JsStr(proposal.organization.id),
          organizationName |-> JsStr(proposal.organization.name),
          coingeckoTicker |-> OrNull(f["coingecko_ticker"]),
          closeTimestamp |-> NumericField(f["closeTimestamp"]),
          startCandleUnix |-> NumericField(f["startCandleUnix"]),
          twapStartTimestamp |-> NumericField(f["twapStartTimestamp"]),
          twapDurationHours |-> NumericField(f["twapDurationHours"]),
          twapDescription |-> OrNull(f["twapDescription"]),
          chain |-> NumericField(f["chain"]),
          pricePrecision |-> NumericField(f["price_precision"]),
          currencyStableRate |-> OrNull(f["currency_stable_rate"]),
          currencyStableSymbol |-> OrNull(f["currency_stable_symbol"])]]

\* Mutant of gqlFetch: the json.errors test is dropped, so that an error
\* payload is returned as its (absent) data.
gqlFetchIgnoreErrors(reply) ==
    [threw |-> reply.kind = "transport",
     data |-> IF reply.kind = "data" THEN reply.data ELSE <<>>]

\* gqlFetch(url, query) given the backend's reply: fetch or response.json()
\* rejects ("transport"), the body carries errors ("errors"), or it carries
\* data. An absent list reads as [] at every use (data?.x || []).
gqlFetch(reply) ==
    [threw |-> reply.kind # "data",
     data |-> IF reply.kind = "data" THEN reply.data ELSE <<>>]

ReplyKinds == {"transport", "errors", "data"}

\* s contains sub
Contains(s, sub) ==
    \E i \in 0..(Len(s) - Len(sub)) : SubSeq(s, i + 1, i + Len(sub)) = sub

\* The first index of entries whose proposal belongs to the aggregator, 0 if
\* there is none: entries.find(...)
FindMatching(entries) ==
    LET ours == {i \in 1..Len(entries) :
                   toLowerCase(entries[i].proposal.organization.aggregator)
                     = toLowerCase(AGGREGATOR_ADDRESS)}
    IN IF ours = {} THEN 0 ELSE CHOOSE i \in ours : \A j \in ours : i <= j

NotFound == [threw |-> FALSE, found |-> FALSE, value |-> JsNull]

\* What a lookup returns for the matching entry, if any
FromMatching(entries) ==
    LET m == FindMatching(entries) IN
    IF m = 0 THEN NotFound
    ELSE LET proposal == entries[m].proposal
             r == normalizeProposalResult(proposal, ParseMetadata(proposal))
         IN [threw |-> r.threw, found |-> ~r.threw, value |-> r.value]

\* graphNode_lookupBySnapshotId: the entries the query selects (value equal to
\* normalized), and what the function makes of the data
graphNode_SnapshotQuery(normalized) ==
    SelectSeq(registry.snapshot, LAMBDA e : e.value = normalized)
graphNode_lookupBySnapshotId(normalized, data) == FromMatching(data)

\* checkpoint_lookupBySnapshotId: the query selects value_contains_nocase, the
\* function keeps the exact matches
checkpoint_SnapshotQuery(normalized) ==
    SelectSeq(registry.snapshot, LAMBDA e : Contains(toLowerCase(e.value), normalized))
checkpoint_lookupBySnapshotId(normalized, data) ==
    FromMatching(SelectSeq(data, LAMBDA e : toLowerCase(e.value) = normalized))

\* The result built from a legacy metadata entry and its organization
OrgResult(value, org) ==
    [proposalId |-> JsStr(toLowerCase(value)),
     proposalAddress |-> JsStr(toLowerCase(value)),
     originalProposalId |-> JsStr(value),
     organizationId |-> JsStr(org.id),
     organizationName |-> JsStr(org.name)]

\* graphNode_lookupInOrgMetadata: one query over the aggregator's
\* organizations, the first entry wins
graphNode_OrgQuery(normalized) ==
    LET has == SelectSeq(registry.orgs, LAMBDA o : o.key = normalized)
    IN [i \in 1..Len(has) |->
          [value |-> has[i].value,
           organization |-> [id |-> has[i].id, name |-> has[i].name]]]
graphNode_lookupInOrgMetadata(data) ==
    IF data = <<>> THEN NotFound
    ELSE [threw |-> FALSE, found |-> TRUE,
          value |-> OrgResult(data[1].value, data[1].organization)]

\* checkpoint_lookupInOrgMetadata: the organizations of the aggregator, then
\* one query per organization
checkpoint_OrganizationsQuery ==
    [i \in 1..Len(registry.orgs) |->
       [id |-> registry.orgs[i].id, name |-> registry.orgs[i].name]]
checkpoint_OrgEntryQuery(normalized, org) ==
    LET has == SelectSeq(registry.orgs,
                         LAMBDA o : o.id = org.id /\ o.key = normalized)
    IN [i \in 1..Len(has) |-> [value |-> has[i].value]]

\* 3. Use ID directly
Fallback(proposalId) ==
    [proposalId |-> JsStr(toLowerCase(proposalId)),
     proposalAddress |-> JsStr(toLowerCase(proposalId)),
     originalProposalId |-> JsStr(proposalId),
     organizationId |-> JsNull,
     organizationName |-> JsNull]

\* Mutant of AfterSnapshot: without a snapshot match the identifier is used
\* directly, the legacy lookup is skipped.
AfterSnapshotSkipOrg(snapshotResult) ==
    IF snapshotResult.found THEN "return" ELSE "fallback"

\* resolveProposalId after step 1: if (snapshotResult) { set; return } else
\* go on to the legacy lookup
AfterSnapshot(snapshotResult) ==
    IF snapshotResult.found THEN "return" ELSE "org"

(***************************************************************************)
(* Candles adapter (adapters/candles-adapter.js)                           *)
(*                                                                         *)
(* A volume in decimal scale is [whole, frac]: the decimal string of       *)
(* whole + frac / WEI. WEI stands for 1e18, scaled down to fit the         *)
(* integers of the model; the division is exact.                           *)
(***************************************************************************)
WEI == 1000
DEFAULT_CHAIN_ID == 100

Decimal(raw) == [whole |-> raw \div WEI, frac |-> raw % WEI]

\* The length of the run of digits s starts with, from position i
RECURSIVE DigitRun(_, _)
DigitRun(s, i) ==
    IF i > Len(s) \/ s[i] \notin Digits THEN i - 1 ELSE DigitRun(s, i + 1)

\* /^\d+-/.test(id)
HasChainPrefix(id) ==
    LET d == DigitRun(id, 1) IN d >= 1 /\ Len(id) > d /\ id[d + 1] = "-"

\* Mutant of stripChainPrefix: the id is returned as the backend gave it.
stripChainPrefixKeep(id) == id

\* stripChainPrefix(id): id.match(/^\d+-(.+)$/)
stripChainPrefix(id) ==
    LET d == DigitRun(id, 1)
    IN IF d >= 1 /\ Len(id) > d + 1 /\ id[d + 1] = "-"
       THEN SubSeq(id, d + 2, Len(id)) ELSE id

\* addChainPrefix(id, chainId)
addChainPrefix(id, chainId) ==
    IF id = <<>> THEN id
    ELSE IF HasChainPrefix(id) THEN id
    ELSE String(chainId) \o <<"-">> \o id

\* Graph Node's pools of a proposal: nested token and proposal objects,
\* volumes in decimal scale.
graphNode_PoolsQuery(pools, proposalAddress) ==
    LET of == SelectSeq(pools, LAMBDA q : q.proposal.id = proposalAddress)
    IN [i \in 1..Len(of) |->
          [id |-> of[i].address, name |-> of[i].name,
           outcomeSide |-> of[i].outcomeSide,
           volumeToken0 |-> Decimal(of[i].wei0),
           volumeToken1 |-> Decimal(of[i].wei1),
           token0 |-> of[i].token0, token1 |-> of[i].token1,
           proposal |-> of[i].proposal]]

\* graphNode_fetchPools: data?.pools || []
graphNode_fetchPools(data) == data

\* Checkpoint's pools of a proposal: chain-prefixed ids, volumes in raw
\* units, token0 / token1 / proposal as plain ids.
checkpoint_PoolsQuery(pools, prefixedProposal) ==
    LET of == SelectSeq(pools,
                        LAMBDA q : addChainPrefix(q.proposal.id, DEFAULT_CHAIN_ID)
                                     = prefixedProposal)
    IN [i \in 1..Len(of) |->
          [id |-> addChainPrefix(of[i].address, DEFAULT_CHAIN_ID),
           name |-> of[i].name, outcomeSide |-> of[i].outcomeSide,
           volumeToken0 |-> String(of[i].wei0),
           volumeToken1 |-> String(of[i].wei1),
           token0 |-> of[i].token0.id.s, token1 |-> of[i].token1.id.s,
           proposal |-> addChainPrefix(of[i].proposal.id, DEFAULT_CHAIN_ID)]]

\* pool.volumeTokenN ? String(parseFloat(pool.volumeTokenN) / 1e18) : '0'
NormalizeVolume(raw) ==
    IF raw # <<>> THEN Decimal(DigitPrefix(raw, 1, 0)) ELSE Decimal(0)

\* checkpoint_fetchPools: rawPools.map(...)
checkpoint_fetchPools(rawPools) ==
    [i \in 1..Len(rawPools) |->
       [id |-> stripChainPrefix(rawPools[i].id),
        name |-> rawPools[i].name,
        outcomeSide |-> rawPools[i].outcomeSide,
        volumeToken0 |-> NormalizeVolume(rawPools[i].volumeToken0),
        volumeToken1 |-> NormalizeVolume(rawPools[i].volumeToken1),
        token0 |-> [id |-> JsStr(rawPools[i].token0), symbol |-> JsNull, role |-> JsNull],
        token1 |-> [id |-> JsStr(rawPools[i].token1), symbol |-> JsNull, role |-> JsNull],
        proposal |-> [id |-> stripChainPrefix(rawPools[i].proposal),
                      marketName |-> JsNull, companyToken |-> JsNull,
                      currencyToken |-> JsNull]]]

\* Graph Node's hourly candles of a pool with periodStartUnix in
\* [minTimestamp, maxTimestamp], by periodStartUnix
graphNode_CandlesQuery(candles, poolId, minTimestamp, maxTimestamp) ==
    LET of == SelectSeq(candles,
                 LAMBDA k : /\ k.pool = poolId
                            /\ k.periodStartUnix >= minTimestamp
                            /\ k.periodStartUnix <= maxTimestamp)
    IN [i \in 1..Len(of) |->
          [periodStartUnix |-> String(of[i].periodStartUnix), close |-> of[i].close]]

\* graphNode_fetchCandles: data?.candles || []
graphNode_fetchCandles(data) == data

\* Checkpoint's hourly candles of a pool with time in
\* [minTimestamp, maxTimestamp], by time
checkpoint_CandlesQuery(candles, prefixedPool, minTimestamp, maxTimestamp) ==
    LET of == SelectSeq(candles,
                 LAMBDA k : /\ addChainPrefix(k.pool, DEFAULT_CHAIN_ID) = prefixedPool
                            /\ k.time >= minTimestamp
                            /\ k.time <= maxTimestamp)
    IN [i \in 1..Len(of) |->
          [periodStartUnix |-> of[i].periodStartUnix, close |-> of[i].close]]

\* checkpoint_fetchCandles: rawCandles.map(c => ({ periodStartUnix:
\* String(c.periodStartUnix), close: c.close }))
checkpoint_fetchCandles(rawCandles) ==
    [i \in 1..Len(rawCandles) |->
       [periodStartUnix |-> String(rawCandles[i].periodStartUnix),
        close |-> rawCandles[i].close]]

(***************************************************************************)
(* SpecAdapter: callers use the adapters against the backends, in either   *)
(* mode; calls overlap, every query of a call is answered in a step of its *)
(* own, by a transport failure, an error payload or data.                  *)
(***************************************************************************)
MaxAdapterCalls == 2
MaxAdapterTicks == 1
\* The clock advances by two thirds of the registry ttl at a time.
AdapterStep == (2 * REGISTRY_TTL_SEC) \div 3
Callers == {"a", "b"}

SnapshotId == <<"Q", "m", "A">>
TradingAddress == <<"0", "x", "B">>
\* The identifier is given as stored or in another case.
ResolveIds == {SnapshotId, toLowerCase(SnapshotId)}

NumericKeys == {"closeTimestamp", "startCandleUnix", "twapStartTimestamp",
                "twapDurationHours", "chain", "price_precision"}

ValidFields ==
    [k \in ConfigKeys |->
       IF k \in NumericKeys THEN JsStr(<<"1", "7">>) ELSE JsStr(<<"t", "k">>)]
NumberFields ==
    [k \in ConfigKeys |->
       IF k = "chain" THEN JsNum(0)
       ELSE IF k \in NumericKeys THEN JsNum(17) ELSE JsUndefined]
NonNumericFields == [ValidFields EXCEPT !["closeTimestamp"] = JsStr(<<"a", "1">>)]

MetadataText(kind, fields) == [kind |-> kind, fields |-> fields]
ValidMetadata == MetadataText("object", ValidFields)
MetadataTexts ==
    {MetadataText("absent", EmptyConfig.fields),
     MetadataText("invalid", EmptyConfig.fields),
     MetadataText("null", EmptyConfig.fields),
     MetadataText("object", EmptyConfig.fields),
     ValidMetadata,
     MetadataText("object", NumberFields),
     MetadataText("object", NonNumericFields)}

SnapshotEntry(value, aggregator, metadata) ==
    [value |-> value,
     proposal |-> [id |-> TradingAddress, proposalAddress |-> TradingAddress,
                   metadata |-> metadata,
                   organization |-> [id |-> <<"o", "1">>, name |-> <<"D", "A", "O">>,
                                     aggregator |-> aggregator]]]

OrgWith(id, key) ==
    [id |-> id, name |-> <<"D", "A", "O">>, key |-> key, value |-> TradingAddress]

StoredKey == toLowerCase(SnapshotId)

\* What the registry may hold about the snapshot identifier.
RegistryHoldings ==
    {[snapshot |-> <<SnapshotEntry(StoredKey, AGGREGATOR_ADDRESS, m)>>, orgs |-> <<>>] :
        m \in MetadataTexts}
    \cup
    {[snapshot |-> <<SnapshotEntry(StoredKey, OtherAggregator, ValidMetadata),
                     SnapshotEntry(StoredKey, AGGREGATOR_ADDRESS, ValidMetadata)>>,
      orgs |-> <<>>],
     [snapshot |-> <<SnapshotEntry(StoredKey \o <<"2">>, AGGREGATOR_ADDRESS, ValidMetadata)>>,
      orgs |-> <<OrgWith(<<"o", "1">>, StoredKey)>>],
     [snapshot |-> <<SnapshotEntry(StoredKey, OtherAggregator, ValidMetadata)>>,
      orgs |-> <<OrgWith(<<"o", "1">>, StoredKey)>>],
     [snapshot |-> <<>>,
      orgs |-> <<OrgWith(<<"o", "1">>, <<>>), OrgWith(<<"o", "2">>, StoredKey)>>],
     [snapshot |-> <<>>, orgs |-> <<OrgWith(<<"o", "1">>, <<>>)>>],
     [snapshot |-> <<>>, orgs |-> <<>>]}

\* What the candles backends may hold: the pools of the proposal and the
\* hourly candles of its YES pool; a candle's time is that of a swap within
\* its hour.
YesPoolId == <<"0", "x", "f", "8">>
NoPoolId == <<"0", "x", "a", "9">>
ProposalAddress == toLowerCase(TradingAddress)

PoolFact(address, name, side, wei0, wei1) ==
    [address |-> address, name |-> name, outcomeSide |-> side,
     wei0 |-> wei0, wei1 |-> wei1,
     token0 |-> [id |-> JsStr(<<"0", "x", "1">>), symbol |-> JsStr(<<"Y", "G">>),
                 role |-> JsStr(<<"C", "O">>)],
     token1 |-> [id |-> JsStr(<<"0", "x", "2">>), symbol |-> JsStr(<<"Y", "S">>),
                 role |-> JsStr(<<"C", "U">>)],
     proposal |-> [id |-> ProposalAddress, marketName |-> JsStr(<<"M">>),
                   companyToken |-> [id |-> JsStr(<<"0", "x", "3">>),
                                     symbol |-> JsStr(<<"G">>)],
                   currencyToken |-> [id |-> JsStr(<<"0", "x", "4">>),
                                      symbol |-> JsStr(<<"S">>)]]]

PoolFixtures ==
    {<<>>,
     <<PoolFact(YesPoolId, <<"Y">>, "YES", 550340, 0)>>,
     <<PoolFact(YesPoolId, <<"Y">>, "YES", 550340, 12000),
       PoolFact(NoPoolId, <<"N">>, "NO", 999, 1000)>>}

CandleStarts == {0, ONE_HOUR, 2 * ONE_HOUR}
SwapOffsets == {0, ONE_HOUR \div 2}

CandleFixtures ==
    {LET ts == SortAsc(S)
     IN [i \in 1..Len(ts) |->
           [pool |-> YesPoolId, periodStartUnix |-> ts[i], time |-> ts[i] + d,
            close |-> String(10 + i)]] :
        S \in SUBSET CandleStarts, d \in SwapOffsets}

CandleRanges ==
    {r \in [minTimestamp : CandleStarts, maxTimestamp : CandleStarts] :
        r.minTimestamp <= r.maxTimestamp}

\* The backends of SpecAdapter: any registry, the largest candles fixture.
AdapterBackends ==
    {[snapshot |-> r.snapshot, orgs |-> r.orgs,
      pools |-> <<PoolFact(YesPoolId, <<"Y">>, "YES", 550340, 0)>>,
      candles |-> <<[pool |-> YesPoolId, periodStartUnix |-> ONE_HOUR,
                     time |-> ONE_HOUR, close |-> String(11)]>>,
      ranges |-> {[minTimestamp |-> 0, maxTimestamp |-> ONE_HOUR]}] :
        r \in RegistryHoldings}

\* The backends of SpecCandles: an empty registry, any candles fixture.
CandlesBackends ==
    {[snapshot |-> <<>>, orgs |-> <<>>, pools |-> q, candles |-> k,
      ranges |-> CandleRanges] :
        q \in PoolFixtures, k \in CandleFixtures}

IdleCall == [pc |-> "idle"]
NoCall == [seq |-> 0, started |-> 0, out |-> "none", result |-> JsNull, queries |-> 0]

InitAdapterWith(backends) ==
    /\ IS_CHECKPOINT \in BOOLEAN
    /\ registry \in backends
    /\ calls = [c \in Callers |-> IdleCall]
    /\ settled = [made |-> 0, ticks |-> 0,
                  prev |-> [k \in {toLowerCase(i) : i \in ResolveIds} |-> NoCall]]
    /\ last = NoOp
    /\ now = 0
    /\ caches = [c \in CacheNames |-> EmptyStore]
    /\ inst = "registry"
    /\ lastSet = [k \in CacheKeys |-> NoSet]
    /\ IdleChart /\ IdleHop /\ IdleFill

InitAdapter == InitAdapterWith(AdapterBackends)
InitCandles == InitAdapterWith(CandlesBackends)

InFlight == {c \in Callers : calls[c].pc # "idle"}

\* A caller may start a call: the second caller's calls overlap the first's.
\* Only calls of resolveProposalId, which share the registry cache, overlap.
MayCall(c, fn) ==
    /\ calls[c].pc = "idle"
    /\ c = "b" => calls["a"].pc # "idle"
    /\ \A d \in InFlight : calls[d].fn = "resolveProposalId" /\ fn = calls[d].fn
    /\ settled.made < MaxAdapterCalls

NewCall(fn, pc, arg) ==
    [fn |-> fn, pc |-> pc, arg |-> arg, seq |-> settled.made + 1,
     started |-> now, queries |-> 1, trace |-> <<>>, orgs |-> <<>>]

\* The call of caller c settles: its promise resolves with value or rejects.
\* reply is the kind of the backend reply the step consumed ("none" for a
\* cache hit), store the registry cache's store after the step, both what the
\* two backends' implementations make of the same data.
Settle(c, call, reply, out, value, trace, store, both) ==
    /\ calls' = [calls EXCEPT ![c] = IdleCall]
    /\ caches' = [caches EXCEPT !["registry"] = store]
    /\ last' = [op |-> "settle", fn |-> call.fn, arg |-> call.arg, seq |-> call.seq,
                started |-> call.started, reply |-> reply, out |-> out,
                result |-> value, queries |-> call.queries, trace |-> trace,
                cacheKept |-> store = caches["registry"],
                prev |-> IF call.fn = "resolveProposalId"
                         THEN settled.prev[toLowerCase(call.arg)] ELSE NoCall,
                both |-> both]
    /\ settled' = [settled EXCEPT
                      !.made = IF reply = "none" THEN @ + 1 ELSE @,
                      !.prev = IF call.fn = "resolveProposalId"
                               THEN [@ EXCEPT ![toLowerCase(call.arg)] =
                                       [seq |-> call.seq, started |-> call.started,
                                        out |-> out, result |-> value,
                                        queries |-> call.queries]]
                               ELSE @]

NoBoth == [graphNode |-> <<>>, checkpoint |-> <<>>]

\* registryCache.set(normalized, result); return result
SetAndReturn(c, call, reply, value, trace) ==
    Settle(c, call, reply, "resolved", value, trace,
           CacheSet(caches["registry"], toLowerCase(call.arg), value, now), NoBoth)

Reject(c, call, reply, trace) ==
    Settle(c, call, reply, "rejected", JsNull, trace, caches["registry"], NoBoth)

Step(name, found, failed) == [step |-> name, found |-> found, failed |-> failed]

\* The call goes on to its next query.
Await(c, call, reply, pc, trace, orgs) ==
    /\ calls' = [calls EXCEPT ![c] = [call EXCEPT !.pc = pc, !.trace = trace,
                                                   !.orgs = orgs,
                                                   !.queries = @ + 1]]
    /\ last' = [op |-> "await", reply |-> reply]
    /\ UNCHANGED <<caches, settled>>

\* Time passes, between calls.
AdapterTick ==
    /\ settled.ticks < MaxAdapterTicks
    /\ InFlight = {}
    /\ now' = now + AdapterStep
    /\ settled' = [settled EXCEPT !.ticks = @ + 1]
    /\ last' = NoOp
    /\ UNCHANGED <<caches, inst, lastSet, IS_CHECKPOINT, registry, calls,
                   chartVars, hopVars, fillVars>>

\* resolveProposalId(proposalId) up to its first await: the cache lookup, and
\* on a miss the snapshot_id query is sent.
ResolveCall ==
    \E c \in Callers, proposalId \in ResolveIds :
       LET normalized == toLowerCase(proposalId)
           cached == CacheGet(caches["registry"], normalized, now, CacheTtl("registry"))
           call == NewCall("resolveProposalId", "snapshot", proposalId)
       IN
       /\ MayCall(c, "resolveProposalId")
       /\ IF cached.hit
          THEN Settle(c, [call EXCEPT !.queries = 0], "none", "resolved",
                      cached.value, <<>>, cached.store, NoBoth)
          ELSE /\ calls' = [calls EXCEPT ![c] = call]
               /\ caches' = [caches EXCEPT !["registry"] = cached.store]
               /\ settled' = [settled EXCEPT !.made = @ + 1]
               /\ last' = [op |-> "await", reply |-> "none"]
       /\ UNCHANGED <<now, inst, lastSet, IS_CHECKPOINT, registry,
                      chartVars, hopVars, fillVars>>

\* Once the legacy lookup found nothing: the identifier is used directly.
UseDirectly(c, call, reply, trace) ==
    SetAndReturn(c, call, reply, Fallback(call.arg),
                 Append(trace, Step("fallback", TRUE, FALSE)))

\* The snapshot_id query is answered and the call runs to its next await or
\* to its end.
SnapshotReply ==
    \E c \in Callers, kind \in ReplyKinds :
       LET call == calls[c]
           normalized == toLowerCase(call.arg)
           fetched == gqlFetch([kind |-> kind,
                                data |-> IF IS_CHECKPOINT
                                         THEN checkpoint_SnapshotQuery(normalized)
                                         ELSE graphNode_SnapshotQuery(normalized)])
           snapshotResult == IF IS_CHECKPOINT
                             THEN checkpoint_lookupBySnapshotId(normalized, fetched.data)
                             ELSE graphNode_lookupBySnapshotId(normalized, fetched.data)
           missed == Append(call.trace, Step("snapshot", FALSE, FALSE))
       IN
       /\ call.pc = "snapshot"
       /\ IF fetched.threw \/ snapshotResult.threw
          THEN Reject(c, call, kind, Append(call.trace, Step("snapshot", FALSE, TRUE)))
          ELSE CASE AfterSnapshot(snapshotResult) = "return" ->
                      SetAndReturn(c, call, kind, snapshotResult.value,
                                   Append(call.trace, Step("snapshot", TRUE, FALSE)))
                 [] AfterSnapshot(snapshotResult) = "org" ->
                      Await(c, call, kind,
                            IF IS_CHECKPOINT THEN "organizations" ELSE "org",
                            missed, <<>>)
                 [] OTHER -> UseDirectly(c, call, kind, missed)
       /\ UNCHANGED <<now, inst, lastSet, IS_CHECKPOINT, registry,
                      chartVars, hopVars, fillVars>>

\* Graph Node: the legacy metadata query is answered.
OrgReply ==
    \E c \in Callers, kind \in ReplyKinds :
       LET call == calls[c]
           fetched == gqlFetch([kind |-> kind,
                                data |-> graphNode_OrgQuery(toLowerCase(call.arg))])
           orgResult == graphNode_lookupInOrgMetadata(fetched.data)
       IN
       /\ call.pc = "org"
       /\ IF fetched.threw
          THEN Reject(c, call, kind, Append(call.trace, Step("org", FALSE, TRUE)))
          ELSE IF orgResult.found
               THEN SetAndReturn(c, call, kind, orgResult.value,
                                 Append(call.trace, Step("org", TRUE, FALSE)))
               ELSE UseDirectly(c, call, kind,
                                Append(call.trace, Step("org", FALSE, FALSE)))
       /\ UNCHANGED <<now, inst, lastSet, IS_CHECKPOINT, registry,
                      chartVars, hopVars, fillVars>>

\* Checkpoint: the organizations query is answered.
OrganizationsReply ==
    \E c \in Callers, kind \in ReplyKinds :
       LET call == calls[c]
           fetched == gqlFetch([kind |-> kind, data |-> checkpoint_OrganizationsQuery])
       IN
       /\ call.pc = "organizations"
       /\ IF fetched.threw
          THEN Reject(c, call, kind, Append(call.trace, Step("org", FALSE, TRUE)))
          ELSE IF fetched.data = <<>>
               THEN UseDirectly(c, call, kind,
                                Append(call.trace, Step("org", FALSE, FALSE)))
               ELSE Await(c, call, kind, "orgEntry", call.trace, fetched.data)
       /\ UNCHANGED <<now, inst, lastSet, IS_CHECKPOINT, registry,
                      chartVars, hopVars, fillVars>>

\* Checkpoint: the metadata query of the organization at hand is answered.
OrgEntryReply ==
    \E c \in Callers, kind \in ReplyKinds :
       LET call == calls[c]
           org == Head(call.orgs)
           fetched == gqlFetch([kind |-> kind,
                                data |-> checkpoint_OrgEntryQuery(toLowerCase(call.arg), org)])
       IN
       /\ call.pc = "orgEntry"
       /\ IF fetched.threw
          THEN Reject(c, call, kind, Append(call.trace, Step("org", FALSE, TRUE)))
          ELSE IF fetched.data # <<>>
               THEN SetAndReturn(c, call, kind, OrgResult(fetched.data[1].value, org),
                                 Append(call.trace, Step("org", TRUE, FALSE)))
               ELSE IF Tail(call.orgs) = <<>>
                    THEN UseDirectly(c, call, kind,
                                     Append(call.trace, Step("org", FALSE, FALSE)))
                    ELSE Await(c, call, kind, "orgEntry", call.trace, Tail(call.orgs))
       /\ UNCHANGED <<now, inst, lastSet, IS_CHECKPOINT, registry,
                      chartVars, hopVars, fillVars>>

\* fetchPoolsForProposal(proposalAddress, chainId): the pools query is sent.
FetchPoolsCall ==
    \E c \in Callers :
       /\ MayCall(c, "fetchPoolsForProposal")
       /\ calls' = [calls EXCEPT ![c] =
                       NewCall("fetchPoolsForProposal", "pools", ProposalAddress)]
       /\ settled' = [settled EXCEPT !.made = @ + 1]
       /\ last' = [op |-> "await", reply |-> "none"]
       /\ UNCHANGED <<now, caches, inst, lastSet, IS_CHECKPOINT, registry,
                      chartVars, hopVars, fillVars>>

\* fetchCandles(poolId, minTimestamp, maxTimestamp, chainId): the candles
\* query is sent.
FetchCandlesCall ==
    \E c \in Callers, range \in registry.ranges :
       /\ MayCall(c, "fetchCandles")
       /\ calls' = [calls EXCEPT ![c] = NewCall("fetchCandles", "candles", range)]
       /\ settled' = [settled EXCEPT !.made = @ + 1]
       /\ last' = [op |-> "await", reply |-> "none"]
       /\ UNCHANGED <<now, caches, inst, lastSet, IS_CHECKPOINT, registry,
                      chartVars, hopVars, fillVars>>

\* The pools query is answered.
PoolsReply ==
    \E c \in Callers, kind \in ReplyKinds :
       LET call == calls[c]
           pools == registry.pools
           prefixedProposal == addChainPrefix(call.arg, DEFAULT_CHAIN_ID)
           graphNode == graphNode_fetchPools(graphNode_PoolsQuery(pools, call.arg))
           checkpoint == checkpoint_fetchPools(
                            checkpoint_PoolsQuery(pools, prefixedProposal))
           fetched == gqlFetch([kind |-> kind,
                                data |-> IF IS_CHECKPOINT
                                         THEN checkpoint_PoolsQuery(pools, prefixedProposal)
                                         ELSE graphNode_PoolsQuery(pools, call.arg)])
       IN
       /\ call.pc = "pools"
       /\ IF fetched.threw
          THEN Reject(c, call, kind, <<>>)
          ELSE Settle(c, call, kind, "resolved",
                      IF IS_CHECKPOINT THEN checkpoint_fetchPools(fetched.data)
                      ELSE graphNode_fetchPools(fetched.data),
                      <<>>, caches["registry"],
                      [graphNode |-> graphNode, checkpoint |-> checkpoint])
       /\ UNCHANGED <<now, inst, lastSet, IS_CHECKPOINT, registry,
                      chartVars, hopVars, fillVars>>

\* The candles query is answered.
CandlesReply ==
    \E c \in Callers, kind \in ReplyKinds :
       LET call == calls[c]
           candles == registry.candles
           prefixedPool == addChainPrefix(YesPoolId, DEFAULT_CHAIN_ID)
           fromGraphNode == graphNode_CandlesQuery(candles, YesPoolId,
                               call.arg.minTimestamp, call.arg.maxTimestamp)
           fromCheckpoint == checkpoint_CandlesQuery(candles, prefixedPool,
                               call.arg.minTimestamp, call.arg.maxTimestamp)
           fetched == gqlFetch([kind |-> kind,
                                data |-> IF IS_CHECKPOINT THEN fromCheckpoint
                                         ELSE fromGraphNode])
       IN
       /\ call.pc = "candles"
       /\ IF fetched.threw
          THEN Reject(c, call, kind, <<>>)
          ELSE Settle(c, call, kind, "resolved",
                      IF IS_CHECKPOINT THEN checkpoint_fetchCandles(fetched.data)
                      ELSE graphNode_fetchCandles(fetched.data),
                      <<>>, caches["registry"],
                      [graphNode |-> graphNode_fetchCandles(fromGraphNode),
                       checkpoint |-> checkpoint_fetchCandles(fromCheckpoint)])
       /\ UNCHANGED <<now, inst, lastSet, IS_CHECKPOINT, registry,
                      chartVars, hopVars, fillVars>>

NextAdapter ==
    \/ AdapterTick
    \/ ResolveCall
    \/ SnapshotReply
    \/ OrgReply
    \/ OrganizationsReply
    \/ OrgEntryReply
    \/ FetchPoolsCall
    \/ FetchCandlesCall
    \/ PoolsReply
    \/ CandlesReply

SpecAdapter == InitAdapter /\ [][NextAdapter]_vars

NextCandles ==
    \/ FetchPoolsCall
    \/ FetchCandlesCall
    \/ PoolsReply
    \/ CandlesReply

SpecCandles == InitCandles /\ [][NextCandles]_vars

\* What the registry holds for a normalized identifier, whatever the backend:
\* a snapshot_id entry of the aggregator, a legacy entry of one of its
\* organizations.
HasSnapshotEntry(normalized) ==
    \E i \in 1..Len(registry.snapshot) :
       /\ toLowerCase(registry.snapshot[i].value) = normalized
       /\ registry.snapshot[i].proposal.organization.aggregator = AGGREGATOR_ADDRESS
HasOrgEntry(normalized) ==
    \E i \in 1..Len(registry.orgs) : registry.orgs[i].key = normalized

\* C14: a call that misses the cache tries the snapshot_id lookup first, the
\* legacy lookup only after the first found no match, and uses the identifier
\* directly only after both found no match; what it returns comes from the
\* first of the three that produced a result.
C14_ResolutionOrder ==
    (last.op = "settle" /\ last.fn = "resolveProposalId" /\ last.trace # <<>>) =>
       LET tr == last.trace
           n == Len(tr)
           normalized == toLowerCase(last.arg)
       IN /\ tr[1].step = "snapshot"
          /\ \A i \in 2..n :
                /\ ~tr[i - 1].found /\ ~tr[i - 1].failed
                /\ tr[i - 1].step = "snapshot" => tr[i].step = "org"
                /\ tr[i - 1].step = "org" => tr[i].step = "fallback"
                /\ tr[i - 1].step # "fallback"
          /\ last.out = "resolved" =>
                /\ tr[n].found
                /\ tr[n].step = "snapshot" <=> HasSnapshotEntry(normalized)
                /\ tr[n].step = "org" <=>
                      (~HasSnapshotEntry(normalized) /\ HasOrgEntry(normalized))
                /\ tr[n].step = "snapshot" =>
                      "coingeckoTicker" \in DOMAIN last.result
                /\ tr[n].step = "org" =>
                      /\ last.result = OrgResult(TradingAddress,
                                                 [id |-> last.result.organizationId.s,
                                                  name |-> <<"D", "A", "O">>])
                /\ tr[n].step = "fallback" => last.result = Fallback(last.arg)

\* A call went through both lookups without a match and returned the
\* identifier itself.
C14_Witness ==
    /\ last.op = "settle"
    /\ last.fn = "resolveProposalId"
    /\ last.out = "resolved"
    /\ Len(last.trace) = 3
    /\ last.trace[3].step = "fallback"

\* C15: of two calls with the same identifier up to case, made within the
\* registry ttl of each other, the second returns what the first returned and
\* sends no query.
C15_SecondCallServedFromCache ==
    (/\ last.op = "settle"
     /\ last.fn = "resolveProposalId"
     /\ last.prev.out = "resolved"
     /\ last.prev.seq < last.seq
     /\ last.started - last.prev.started <= REGISTRY_TTL_SEC)
    => /\ last.out = "resolved"
       /\ last.queries = 0
       /\ last.result = last.prev.result

ConfigDerived == {"coingeckoTicker", "closeTimestamp", "startCandleUnix", "chain",
                  "pricePrecision", "currencyStableRate", "currencyStableSymbol"}
NumericDerived == {"closeTimestamp", "startCandleUnix", "chain", "pricePrecision"}

\* C19: whatever the stored configuration text, a resolution whose queries
\* were all answered with data returns a result, and each of its
\* configuration-derived members is null (or absent), a number for a numeric
\* member, or a non-empty string for the others.
C19_ConfigFieldsValidOrNull ==
    (last.op = "settle" /\ last.fn = "resolveProposalId"
        /\ last.reply \in {"data", "none"}) =>
       /\ last.out = "resolved"
       /\ \A k \in ConfigDerived \cap DOMAIN last.result :
             \/ last.result[k] = JsNull
             \/ IF k \in NumericDerived THEN last.result[k].t = "number"
                ELSE last.result[k].t = "string" /\ last.result[k].s # <<>>

\* C20: on the same pools and candles, held by each backend in its own
\* schema, the Graph Node and the Checkpoint implementations of
\* fetchPoolsForProposal and of fetchCandles return the same list.
C20_ProvidersAgree ==
    (last.op = "settle" /\ last.reply = "data"
        /\ last.fn \in {"fetchPoolsForProposal", "fetchCandles"}) =>
       last.both.graphNode = last.both.checkpoint

(***************************************************************************)
(* SpecSpot: one fetchSpotCandles call (services/spot-price.js), split at  *)
(* the awaits of searchPool and fetchCandlesFromGecko.  A ticker is the    *)
(* sequence of its tokens (names, addresses and the separators the parser  *)
(* splits on); names are lower-case already, no ticker names a rate        *)
(* provider, and interval, limit and network, which only select the URL,   *)
(* are not kept in the configuration.                                      *)
(***************************************************************************)
SpotTickers ==
    {<<>>,
     <<"pnk", "/", "sdai", "-", "hour", "-", "500", "-", "xdai">>,
     <<"pnk", "/", "sdai", "-", "hour", "-", "500", "-", "xdai", "-", "invert">>,
     <<"!", "pnk", "/", "sdai", "-", "hour", "-", "500", "-", "xdai", "-", "invert">>,
     <<"0xpool", "-", "hour", "-", "500", "-", "xdai">>,
     <<"pnk", "/", "weth", "+", "weth", "/", "sdai", "-", "hour", "-", "500", "-", "xdai">>,
     <<"pnk", "/", "weth", "+", "!", "sdai", "/", "weth", "-", "hour", "-", "500",
       "-", "xdai", "-", "invert">>}

\* text.split(sep): the pieces between the separators
RECURSIVE Split(_, _)
Split(text, sep) ==
    IF \A i \in 1..Len(text) : text[i] # sep THEN <<text>>
    ELSE LET k == CHOOSE i \in 1..Len(text) :
                     text[i] = sep /\ \A j \in 1..(i - 1) : text[j] # sep
         IN <<SubSeq(text, 1, k - 1)>> \o Split(SubSeq(text, k + 1, Len(text)), sep)

\* const [a, b] = pieces: a missing piece is undefined, written <<>>
Piece(pieces, i) == IF i <= Len(pieces) THEN pieces[i] ELSE <<>>

\* parseConfig(input)
parseConfig(input) ==
    LET parts == Split(input, "-")
        tokenPart == parts[1]
        invert == parts[Len(parts)] = <<"invert">>
        hopTexts == Split(tokenPart, "+")
        hopOf(hop) ==
            LET invertHop == hop # <<>> /\ hop[1] = "!"
                cleanHop == IF invertHop THEN Tail(hop) ELSE hop
            IN [base |-> Piece(Split(cleanHop, "/"), 1),
                quote |-> Piece(Split(cleanHop, "/"), 2), invert |-> invertHop]
        isAddress == /\ tokenPart # <<>>
                     /\ tokenPart[1] \in {"0xpool"}
                     /\ \A i \in 1..Len(tokenPart) : tokenPart[i] # "/"
    IN IF input = <<>>
       THEN [isNull |-> TRUE, isMultiHop |-> FALSE, hops |-> <<>>,
             poolAddress |-> <<>>, base |-> <<>>, quote |-> <<>>, invert |-> FALSE]
       ELSE IF \E i \in 1..Len(tokenPart) : tokenPart[i] = "+"
       THEN [isNull |-> FALSE, isMultiHop |-> TRUE,
             hops |-> [h \in 1..Len(hopTexts) |-> hopOf(hopTexts[h])],
             poolAddress |-> <<>>, base |-> <<>>, quote |-> <<>>, invert |-> invert]
       ELSE IF isAddress
       THEN [isNull |-> FALSE, isMultiHop |-> FALSE, hops |-> <<>>,
             poolAddress |-> tokenPart, base |-> <<>>, quote |-> <<>>,
             invert |-> invert]
       ELSE [isNull |-> FALSE, isMultiHop |-> FALSE, hops |-> <<>>,
             poolAddress |-> <<>>, base |-> Piece(Split(tokenPart, "/"), 1),
             quote |-> Piece(Split(tokenPart, "/"), 2), invert |-> invert]

\* What the search endpoint answers: the fetch rejects ("transport"), a
\* status that is not ok ("status"), or a list of pools; a pool's name is
\* given by the token names it contains.
SearchAnswers ==
    {[kind |-> "transport", pools |-> <<>>], [kind |-> "status", pools |-> <<>>]}
    \cup {[kind |-> "ok", pools |-> ps] :
            ps \in {<<>>,
                    <<[name |-> {<<"pnk">>, <<"usdc">>}, address |-> <<"0xother">>]>>,
                    <<[name |-> {<<"pnk">>, <<"usdc">>}, address |-> <<"0xother">>],
                      [name |-> {<<"pnk">>, <<"sdai">>}, address |-> <<"0xmatch">>],
                      [name |-> {<<"pnk">>, <<"weth">>}, address |-> <<"0xfirst">>],
                      [name |-> {<<"weth">>, <<"sdai">>}, address |-> <<"0xsecond">>]>>}}

\* searchPool after its fetch: the first pool whose name includes both tokens
searchPool(answer, base, quote) ==
    LET pools == answer.pools
        hits == {i \in 1..Len(pools) : {base, quote} \subseteq pools[i].name}
    IN IF answer.kind = "transport"
       THEN [threw |-> TRUE, message |-> "fetch failed", address |-> <<>>]
       ELSE IF answer.kind = "status"
       THEN [threw |-> TRUE, message |-> "Search failed", address |-> <<>>]
       ELSE IF hits = {}
       THEN [threw |-> TRUE, message |-> "Pool not found", address |-> <<>>]
       ELSE [threw |-> FALSE, message |-> "",
             address |-> pools[CHOOSE i \in hits : \A j \in hits : i <= j].address]

\* ohlcv_list of a series: [time, open, high, low, close] rows, newest first
OhlcvList(series) ==
    [i \in 1..Len(series) |->
        LET c == series[Len(series) + 1 - i]
        IN <<c.time, c.value, c.value, c.value, c.value>>]

\* What the ohlcv endpoint answers
OhlcvAnswers ==
    {[kind |-> "transport", ohlcv_list |-> <<>>],
     [kind |-> "status", ohlcv_list |-> <<>>]}
    \cup {[kind |-> "ok", ohlcv_list |-> OhlcvList(series)] : series \in HopSeries}

\* Mutant of fetchCandlesFromGecko: the rows are not reversed before the
\* duplicates are filtered.
fetchCandlesFromGeckoNoReverse(answer) ==
    LET list == answer.ohlcv_list
        raw == [i \in 1..Len(list) |-> [time |-> list[i][1], value |-> list[i][5]]]
        first == [t \in HopTimes(raw) |->
                     raw[CHOOSE i \in 1..Len(raw) :
                            /\ raw[i].time = t
                            /\ \A j \in 1..(i - 1) : raw[j].time # t].value]
    IN IF answer.kind = "transport"
       THEN [threw |-> TRUE, message |-> "fetch failed", candles |-> <<>>]
       ELSE IF answer.kind = "status"
       THEN [threw |-> TRUE, message |-> "Candles failed", candles |-> <<>>]
       ELSE [threw |-> FALSE, message |-> "",
             candles |-> HopSeriesOf(HopTimes(raw), first)]

\* fetchCandlesFromGecko after its fetch: rows to {time, value}, reversed,
\* the first candle of each timestamp kept, sorted ascending by time
fetchCandlesFromGecko(answer) ==
    LET list == answer.ohlcv_list
        raw == [i \in 1..Len(list) |->
                   [time |-> list[Len(list) + 1 - i][1],
                    value |-> list[Len(list) + 1 - i][5]]]
        first == [t \in HopTimes(raw) |->
                     raw[CHOOSE i \in 1..Len(raw) :
                            /\ raw[i].time = t
                            /\ \A j \in 1..(i - 1) : raw[j].time # t].value]
    IN IF answer.kind = "transport"
       THEN [threw |-> TRUE, message |-> "fetch failed", candles |-> <<>>]
       ELSE IF answer.kind = "status"
       THEN [threw |-> TRUE, message |-> "Candles failed", candles |-> <<>>]
       ELSE [threw |-> FALSE, message |-> "",
             candles |-> HopSeriesOf(HopTimes(raw), first)]

\* candles.map(c => ({ ...c, value: 1 / c.value }))
Invert(candles) ==
    [i \in 1..Len(candles) |->
        [time |-> candles[i].time,
         value |-> Frac(candles[i].value.den, candles[i].value.num)]]

\* return { candles: [], price: null, rate: null, pool: null, error }
SpotFailure(message) ==
    [candles |-> <<>>, price |-> JsNull, error |-> JsStr(message)]

\* return { candles, price: latestPrice, ..., error: null }
SpotResult(candles) ==
    [candles |-> candles,
     price |-> IF Len(candles) > 0 THEN JsNum(candles[Len(candles)].value)
               ELSE JsNull,
     error |-> JsNull]

\* Mutant of PromiseAll: a hop that failed is left out, the remaining hops
\* are awaited and combined.
PromiseAllSkipFailed(hops) ==
    LET done == {h \in 1..Len(hops) : hops[h].pc = "done"}
        order == SortAsc(done)
    IN IF \E h \in 1..Len(hops) : hops[h].pc \notin {"done", "failed"}
       THEN [state |-> "pending", values |-> <<>>, message |-> ""]
       ELSE [state |-> "fulfilled",
             values |-> [i \in 1..Len(order) |-> hops[order[i]].candles],
             message |-> ""]

\* await Promise.all(hopCandlesPromises): rejected as soon as one
\* fetchHopCandles has thrown, fulfilled once every one has returned
PromiseAll(hops) ==
    IF \E h \in 1..Len(hops) : hops[h].pc = "failed"
    THEN [state |-> "rejected", values |-> <<>>,
          message |-> hops[CHOOSE h \in 1..Len(hops) : hops[h].pc = "failed"].message]
    ELSE IF \A h \in 1..Len(hops) : hops[h].pc = "done"
    THEN [state |-> "fulfilled", values |-> [h \in 1..Len(hops) |-> hops[h].candles],
          message |-> ""]
    ELSE [state |-> "pending", values |-> <<>>, message |-> ""]

\* The call after one of its hops has moved: the multi-hop path continues
\* when Promise.all settles, the single pool path at its own await; whatever
\* was thrown is caught and returned as the error result.
SpotAfter(call, hops) ==
    LET p == PromiseAll(hops)
        settle(result) == [call EXCEPT !.pc = "settled", !.hops = hops,
                                       !.result = result]
    IN IF call.pc = "settled" THEN [call EXCEPT !.hops = hops]
       ELSE IF call.config.isMultiHop
       THEN IF p.state = "rejected" THEN settle(SpotFailure(p.message))
            ELSE IF p.state = "fulfilled"
            THEN settle(SpotResult(IF call.config.invert
                                   THEN Invert(combineHopCandles(p.values))
                                   ELSE combineHopCandles(p.values)))
            ELSE [call EXCEPT !.hops = hops]
       ELSE IF hops[1].pc = "failed" THEN settle(SpotFailure(hops[1].message))
       ELSE IF hops[1].pc = "done"
       THEN settle(SpotResult(IF call.config.invert THEN Invert(hops[1].candles)
                              ELSE hops[1].candles))
       ELSE [call EXCEPT !.hops = hops]

InitSpot ==
    /\ spotCall = [pc |-> "idle"]
    /\ hopIn = <<>> /\ hopOut = <<>>
    /\ last = NoOp
    /\ IdleCache /\ IdleChart /\ IdleFill /\ IdleAdapter

\* fetchSpotCandles(configString) up to its first await
SpotCall ==
    /\ spotCall.pc = "idle"
    /\ \E ticker \in SpotTickers :
          LET config == parseConfig(ticker)
              pairs == IF config.isMultiHop THEN config.hops
                       ELSE <<[base |-> config.base, quote |-> config.quote,
                               invert |-> FALSE]>>
              hops == [h \in 1..Len(pairs) |->
                          [pc |-> IF config.poolAddress # <<>> THEN "candles"
                                  ELSE "search",
                           base |-> pairs[h].base, quote |-> pairs[h].quote,
                           invert |-> pairs[h].invert,
                           address |-> config.poolAddress, pools |-> <<>>,
                           fetched |-> <<>>, candles |-> <<>>, message |-> ""]]
          IN spotCall' =
                IF config.isNull
                THEN [pc |-> "settled", ticker |-> ticker, config |-> config,
                      hops |-> <<>>, result |-> SpotFailure("Invalid config")]
                ELSE [pc |-> "running", ticker |-> ticker, config |-> config,
                      hops |-> hops, result |-> SpotFailure("")]
    /\ UNCHANGED <<hopIn, hopOut, last, cacheVars, chartVars, fillVars, adapterVars>>

\* A searchPool fetch is answered
SearchReply ==
    /\ spotCall.pc \in {"running", "settled"}
    /\ \E h \in 1..Len(spotCall.hops) :
          /\ spotCall.hops[h].pc = "search"
          /\ \E answer \in SearchAnswers :
                LET pool == searchPool(answer, spotCall.hops[h].base,
                                       spotCall.hops[h].quote)
                    hops == [spotCall.hops EXCEPT
                                ![h].pc = IF pool.threw THEN "failed" ELSE "candles",
                                ![h].address = pool.address,
                                ![h].pools = answer.pools,
                                ![h].message = pool.message]
                IN spotCall' = SpotAfter(spotCall, hops)
    /\ UNCHANGED <<hopIn, hopOut, last, cacheVars, chartVars, fillVars, adapterVars>>

\* A fetchCandlesFromGecko fetch is answered
OhlcvReply ==
    /\ spotCall.pc \in {"running", "settled"}
    /\ \E h \in 1..Len(spotCall.hops) :
          /\ spotCall.hops[h].pc = "candles"
          /\ \E answer \in OhlcvAnswers :
                LET got == fetchCandlesFromGecko(answer)
                    hops == [spotCall.hops EXCEPT
                                ![h].pc = IF got.threw THEN "failed" ELSE "done",
                                ![h].fetched = got.candles,
                                ![h].candles = IF spotCall.hops[h].invert
                                               THEN Invert(got.candles)
                                               ELSE got.candles,
                                ![h].message = got.message]
                IN spotCall' = SpotAfter(spotCall, hops)
    /\ UNCHANGED <<hopIn, hopOut, last, cacheVars, chartVars, fillVars, adapterVars>>

NextSpot ==
    \/ SpotCall
    \/ SearchReply
    \/ OhlcvReply

SpecSpot == InitSpot /\ [][NextSpot]_vars

\* C18: once the pool search or the candle fetch of a hop has failed (zero
\* matching pools included), fetchSpotCandles has resolved, for a single pool
\* and a multi-hop ticker alike, with an empty candle list, a null price and
\* a non-null error, and later answers of the other hops do not change that.
C18_HopFailureGivesErrorResult ==
    (/\ spotCall.pc # "idle"
     /\ \E h \in 1..Len(spotCall.hops) : spotCall.hops[h].pc = "failed")
    => /\ spotCall.pc = "settled"
       /\ spotCall.result.candles = <<>>
       /\ spotCall.result.price.t = "null"
       /\ spotCall.result.error.t = "string"

\* A multi-hop call of which one hop has returned candles and another has
\* found no matching pool.
C18_Witness ==
    /\ spotCall.pc = "settled"
    /\ spotCall.config.isMultiHop
    /\ \E h \in 1..Len(spotCall.hops) :
          spotCall.hops[h].pc = "done" /\ Len(spotCall.hops[h].candles) > 0
    /\ \E h \in 1..Len(spotCall.hops) :
          spotCall.hops[h].pc = "failed" /\ spotCall.hops[h].message = "Pool not found"

(***************************************************************************)
(* SpecPrefix: stripChainPrefix and addChainPrefix applied to identifiers, *)
(* and fetchPoolsForProposal applied to one pool whose id the backend      *)
(* emits plain or as <chainId>-<address>.                                  *)
(***************************************************************************)
MaxIdLen == 3
IdChars == {"0", "1", "x", "-"}
ChainIds == {1, DEFAULT_CHAIN_ID}

\* Identifiers: every text over IdChars of at most MaxIdLen characters
PrefixIds == UNION {[1..n -> IdChars] : n \in 0..MaxIdLen}

\* Pool addresses
PlainAddresses == {YesPoolId, NoPoolId}

\* The id a backend emits for a pool address: Graph Node the address,
\* Checkpoint <chainId>-<address>
EmittedIds(address) ==
    {address} \cup {String(c) \o <<"-">> \o address : c \in ChainIds}

PrefixInputs ==
    {[op |-> "input", id |-> id, chainId |-> c, address |-> a, emitted |-> e] :
        id \in PrefixIds, c \in ChainIds, a \in PlainAddresses,
        e \in UNION {EmittedIds(b) : b \in PlainAddresses}}

InitPrefix ==
    /\ last \in {i \in PrefixInputs : i.emitted \in EmittedIds(i.address)}
    /\ IdleCache /\ IdleChart /\ IdleHop /\ IdleFill /\ IdleAdapter

\* The row Checkpoint returns for a pool, and the object Graph Node returns
CheckpointRow(emitted, c) ==
    [id |-> emitted, name |-> <<"Y">>, outcomeSide |-> "YES",
     volumeToken0 |-> String(550340), volumeToken1 |-> String(0),
     token0 |-> <<"0", "x", "1">>, token1 |-> <<"0", "x", "2">>,
     proposal |-> addChainPrefix(ProposalAddress, c)]

\* The helpers applied to last.id, and fetchPoolsForProposal in each backend
\* mode applied to the pool last.address
ApplyPrefix ==
    /\ last.op = "input"
    /\ last' = [op |-> "prefix", id |-> last.id, chainId |-> last.chainId,
                address |-> last.address, emitted |-> last.emitted,
                stripped |-> stripChainPrefix(last.id),
                added |-> addChainPrefix(last.id, last.chainId),
                addedTwice |-> addChainPrefix(addChainPrefix(last.id, last.chainId),
                                              last.chainId),
                roundTrip |-> stripChainPrefix(addChainPrefix(last.id, last.chainId)),
                checkpoint |-> checkpoint_fetchPools(
                                  <<CheckpointRow(last.emitted, last.chainId)>>),
                graphNode |-> graphNode_fetchPools(
                                 graphNode_PoolsQuery(
                                    <<PoolFact(last.address, <<"Y">>, "YES", 550340, 0)>>,
                                    ProposalAddress))]
    /\ UNCHANGED <<cacheVars, chartVars, hopVars, fillVars, adapterVars>>

NextPrefix == ApplyPrefix

SpecPrefix == InitPrefix /\ [][NextPrefix]_vars

HopText(ticker, h) == Split(Split(ticker, "-")[1], "+")[h]
HasBang(ticker, h) == HopText(ticker, h) # <<>> /\ HopText(ticker, h)[1] = "!"

\* The pool search of hop h was answered with a pool of the hop's pair
PairFound(ticker, h) ==
    LET text == HopText(ticker, h)
        pair == Split(IF HasBang(ticker, h) THEN Tail(text) ELSE text, "/")
        pools == spotCall.hops[h].pools
    IN \E i \in 1..Len(pools) : {pair[1], Piece(pair, 2)} \subseteq pools[i].name

\* C22: a hop written with a leading '!' is searched under its own pair and
\* its series is inverted, in a ticker of one hop as in one of several; for a
\* ticker of one hop written with '!' and ending in '-invert' the result is
\* the series as fetched.
C22_BangInvertsAnyHop ==
    spotCall.pc # "idle" =>
       \A h \in 1..Len(spotCall.hops) :
          HasBang(spotCall.ticker, h) =>
             /\ PairFound(spotCall.ticker, h)
                   => spotCall.hops[h].message # "Pool not found"
             /\ spotCall.hops[h].pc = "done"
                   => /\ spotCall.hops[h].candles = Invert(spotCall.hops[h].fetched)
                      /\ (/\ spotCall.pc = "settled"
                          /\ Len(spotCall.hops) = 1
                          /\ spotCall.config.invert)
                         => spotCall.result.candles = spotCall.hops[h].fetched

(***************************************************************************)
(* SpecOhlcv: fetchCandlesFromGecko applied to any feed of at most         *)
(* MaxFeedLen rows, in any order and with repeated timestamps.             *)
(***************************************************************************)
MaxFeedLen == 3

\* [time, open, high, low, close] rows
OhlcvRows == {<<t, v, v, v, v>> : t \in 1..MaxHopTime, v \in HopValues}

OhlcvFeeds == UNION {[1..n -> OhlcvRows] : n \in 0..MaxFeedLen}

InitOhlcv ==
    /\ last \in {[op |-> "feed", ohlcv_list |-> list] : list \in OhlcvFeeds}
    /\ IdleCache /\ IdleChart /\ IdleHop /\ IdleFill /\ IdleAdapter

\* The feed is answered with status ok and parsed
ParseOhlcv ==
    /\ last.op = "feed"
    /\ last' = [op |-> "ohlcv", ohlcv_list |-> last.ohlcv_list,
                candles |-> fetchCandlesFromGecko(
                               [kind |-> "ok", ohlcv_list |-> last.ohlcv_list]).candles]
    /\ UNCHANGED <<cacheVars, chartVars, hopVars, fillVars, adapterVars>>

NextOhlcv == ParseOhlcv

SpecOhlcv == InitOhlcv /\ [][NextOhlcv]_vars

\* The positions of timestamp t in a feed
FeedPositions(list, t) == {i \in 1..Len(list) : list[i][1] = t}
FeedTimes(list) == {list[i][1] : i \in 1..Len(list)}

\* The series has strictly increasing timestamps, exactly those of the feed
OhlcvAscending ==
    /\ \A p \in 1..(Len(last.candles) - 1) :
          last.candles[p].time < last.candles[p + 1].time
    /\ HopTimes(last.candles) = FeedTimes(last.ohlcv_list)

\* C23 as stated: the series has strictly increasing timestamps without
\* duplicates, and the value kept for a timestamp is that of its first
\* occurrence in the feed.
C23_FirstInFeedKept ==
    last.op = "ohlcv" =>
       /\ OhlcvAscending
       /\ \A p \in 1..Len(last.candles) :
             LET at == FeedPositions(last.ohlcv_list, last.candles[p].time)
                 i == CHOOSE k \in at : \A j \in at : k <= j
             IN last.candles[p].value = last.ohlcv_list[i][5]

\* C23, amended: the series has strictly increasing timestamps without
\* duplicates, and the value kept for a timestamp is that of its last
\* occurrence in the feed, which is the first one once the feed is reversed.
C23_LastInFeedKept ==
    last.op = "ohlcv" =>
       /\ OhlcvAscending
       /\ \A p \in 1..Len(last.candles) :
             LET at == FeedPositions(last.ohlcv_list, last.candles[p].time)
                 i == CHOOSE k \in at : \A j \in at : k >= j
             IN last.candles[p].value = last.ohlcv_list[i][5]

\* A feed was parsed in which one timestamp occurs twice with different
\* closes and another timestamp lies between the two in feed order.
C23_Witness ==
    /\ last.op = "ohlcv"
    /\ Len(last.ohlcv_list) = 3
    /\ last.ohlcv_list[1][1] = last.ohlcv_list[3][1]
    /\ last.ohlcv_list[1][5] # last.ohlcv_list[3][5]
    /\ last.ohlcv_list[2][1] # last.ohlcv_list[1][1]
    /\ Len(last.candles) = 2

(***************************************************************************)
(* SpecServe: the data path of handleUnifiedChartRequest                   *)
(* (routes/unified-chart.js) in Checkpoint mode, from the response cache   *)
(* lookup to responseCache.set, with every upstream call answered.  An     *)
(* array or object is [ref, ...]: ref names the allocation that made it,   *)
(* so that two values with one ref are one object.                         *)
(***************************************************************************)
MaxServeRequests == 2

\* currencyRate as getRateCached resolves it
ServeRates == {1, 2}

ServeRequests ==
    [proposalId : {"p1"}, minTimestamp : {0}, maxTimestamp : {2 * ONE_HOUR},
     includeSpot : {FALSE}, applyCurrencyRate : BOOLEAN]

InitServe ==
    /\ now = 0
    /\ inst = "response"
    /\ caches = [c \in CacheNames |-> EmptyStore]
    /\ lastSet = [k \in CacheKeys |-> NoSet]
    /\ last = [op |-> "idle", seq |-> 0]
    /\ IS_CHECKPOINT = TRUE
    /\ registry \in CandlesBackends
    /\ calls = <<>> /\ settled = <<>>
    /\ IdleChart /\ IdleHop /\ IdleFill

\* candlesCache.get(key) || fetchCandles(pool.id, ...).then(c => {
\* candlesCache.set(key, c); return c; }), or Promise.resolve([]) without a pool
CandlesOf(store, side, pools, q, seq) ==
    LET found == SelectSeq(pools, LAMBDA p : p.outcomeSide = side)
        key == <<side, found[1].id, q.minTimestamp, q.maxTimestamp>>
        g == CacheGet(store, key, now, CacheTtl("candles"))
        fetched == [ref |-> [by |-> "fetchCandles", side |-> side, seq |-> seq],
                    items |-> checkpoint_fetchCandles(
                                 checkpoint_CandlesQuery(
                                    registry.candles,
                                    addChainPrefix(found[1].id, DEFAULT_CHAIN_ID),
                                    q.minTimestamp, q.maxTimestamp))]
    IN IF found = <<>>
       THEN [value |-> [ref |-> [by |-> "literal", side |-> side, seq |-> seq],
                        items |-> <<>>],
             store |-> store]
       ELSE IF g.hit THEN [value |-> g.value, store |-> g.store]
       ELSE [value |-> fetched, store |-> CacheSet(g.store, key, fetched, now)]

\* applyRateToCandles(candles)
applyRateToCandles(candles, shouldApplyRate, rate, seq) ==
    IF ~shouldApplyRate THEN candles
    ELSE [ref |-> [by |-> "map", side |-> candles.ref.side, seq |-> seq],
          items |-> [i \in 1..Len(candles.items) |->
                       [periodStartUnix |-> candles.items[i].periodStartUnix,
                        close |-> IF candles.items[i].close # <<>>
                                  THEN String(DigitPrefix(candles.items[i].close, 1, 0)
                                              * rate)
                                  ELSE candles.items[i].close]]]

\* One chart request
ServeChart ==
    /\ last.seq < MaxServeRequests
    /\ \E q \in ServeRequests, currencyRate \in ServeRates :
          LET seq == last.seq + 1
              key == CacheKey(q)
              g == CacheGet(caches["response"], key, now, CacheTtl("response"))
              pools == checkpoint_fetchPools(
                          checkpoint_PoolsQuery(
                             registry.pools,
                             addChainPrefix(ProposalAddress, DEFAULT_CHAIN_ID)))
              yes == CandlesOf(caches["candles"], "YES", pools, q, seq)
              no == CandlesOf(yes.store, "NO", pools, q, seq)
              shouldApplyRate == q.applyCurrencyRate /\ currencyRate # 1
              response ==
                 [ref |-> [by |-> "response", side |-> "", seq |-> seq],
                  candles |-> [yes |-> applyRateToCandles(yes.value, shouldApplyRate,
                                                          currencyRate, seq),
                               no |-> applyRateToCandles(no.value, shouldApplyRate,
                                                         currencyRate, seq)]]
          IN IF g.hit
             THEN /\ caches' = [caches EXCEPT !["response"] = g.store]
                  /\ last' = [op |-> "serve", seq |-> seq, outcome |-> "HIT",
                              served |-> g.value]
             ELSE /\ caches' = [caches EXCEPT
                                   !["candles"] = no.store,
                                   !["response"] = CacheSet(g.store, key, response, now)]
                  /\ last' = [op |-> "serve", seq |-> seq, outcome |-> "MISS",
                              served |-> response]
    /\ UNCHANGED <<now, inst, lastSet, chartVars, hopVars, fillVars, adapterVars>>

NextServe == ServeChart

SpecServe == InitServe /\ [][NextServe]_vars

\* The pool candle series of the responses in the response cache
CachedSeries ==
    UNION {{caches["response"][k].value.candles.yes,
            caches["response"][k].value.candles.no} : k \in DOMAIN caches["response"]}

\* C24: every YES / NO pool candle series of a served response, and of a
\* response in the response cache, is gap-free: consecutive candles are at
\* most one bucket width apart.
C24_ServedSeriesGapFree ==
    \A series \in CachedSeries
                  \cup (IF last.op = "serve"
                        THEN {last.served.candles.yes, last.served.candles.no}
                        ELSE {}) :
       \A i \in 1..(Len(series.items) - 1) :
          DigitPrefix(series.items[i + 1].periodStartUnix, 1, 0)
             - DigitPrefix(series.items[i].periodStartUnix, 1, 0) <= ONE_HOUR

\* C27: no array held by the candles cache is the object embedded in a value
\* of the response cache, and no value of one cache is a value of the other.
C27_NoObjectSharedAcrossCaches ==
    LET candleRefs == {caches["candles"][k].value.ref : k \in DOMAIN caches["candles"]}
        responseRefs == {caches["response"][k].value.ref :
                            k \in DOMAIN caches["response"]}
    IN /\ candleRefs \cap responseRefs = {}
       /\ candleRefs \cap {series.ref : series \in CachedSeries} = {}

(***************************************************************************)
(* The warm list under requests and warmer ticks (SpecChart)               *)
(***************************************************************************)
\* C25: lastSeen of a warm-list entry is the time of the most recent user
\* request for it, whether that request was served from the cache or
\* computed, so that the entry evicted from a full list is the least
\* recently requested one.
C25_LastSeenIsLastUserRequest ==
    (/\ last.op = "chart"
     /\ last.by = "user"
     /\ last.outcome \in {"HIT", "MISS"}
     /\ last.key \in WarmKeys(warmList))
    => warmList[WarmIndex(warmList, last.key)].lastSeen = last.at

\* C26: a registration of a key already in the warm list changes that
\* entry's lastSeen and nothing else: the list keeps its length and order,
\* every other entry and the entry's params and registeredAt are unchanged,
\* and nothing is evicted, at capacity or not.
C26_ReRegistrationOnlyBumps ==
    [][(/\ last' # last
        /\ last'.op = "chart"
        /\ last'.registered = "bump")
       => /\ last'.key \in WarmKeys(warmList)
          /\ last'.evictedKey = <<>>
          /\ warmList' = [warmList EXCEPT
                             ![WarmIndex(warmList, last'.key)].lastSeen = last'.at]]_vars

\* A key listed earlier has been registered again at a later time, in a list
\* at capacity.
C26_Witness ==
    /\ last.op = "chart"
    /\ last.registered = "bump"
    /\ Len(warmList) = WARMER_MAX_ENTRIES
    /\ warmList[WarmIndex(warmList, last.key)].registeredAt < last.at
    /\ warmList[WarmIndex(warmList, last.key)].lastSeen = last.at

\* C28: under any interleaving of requests and warmer ticks, the
\* registrations made by the warmer's refreshes included, the warm list holds
\* at most WARMER_MAX_ENTRIES entries and no key twice.
C28_WarmListBoundedAndKeyed ==
    /\ Len(warmList) <= WARMER_MAX_ENTRIES
    /\ \A i, j \in 1..Len(warmList) : warmList[i].key = warmList[j].key => i = j

\* The list is at capacity and the entry listed last was registered by a
\* refresh of the warmer, which evicted another entry for it.
C28_Witness ==
    /\ last.op = "chart"
    /\ last.by = "warmer"
    /\ last.registered = "new"
    /\ last.evictedKey # <<>>
    /\ Len(warmList) = WARMER_MAX_ENTRIES

\* ---------------------------------------------------------------------
\* The retention window (SpecRetention): the same requests and warmer
\* ticks, followed from the moment the server has been up for RETENTION
\* seconds.  The timer has just fired (RETENTION is a whole number of
\* intervals), the caches have expired, and the warm list holds an entry
\* first registered within the server's first interval, possibly seen again
\* two intervals ago, and possibly a second, recent entry; each listed
\* entry counts as one request already made.
\* ---------------------------------------------------------------------
RetentionStart == RETENTION
PastSeen == RetentionStart - 2 * REFRESH_INTERVAL

PastEntry(q, registeredAt, lastSeen) ==
    [key |-> CacheKey(q), params |-> WarmParams(q),
     lastSeen |-> lastSeen, registeredAt |-> registeredAt]

PastLists ==
    LET plain == {q \in Requests : ~q.includeSpot}
        olds == {PastEntry(q, r, IF again THEN PastSeen ELSE r) :
                    q \in plain, r \in {0, REFRESH_INTERVAL}, again \in BOOLEAN}
        recent(old) == {PastEntry(q, PastSeen, PastSeen) :
                           q \in {x \in plain : CacheKey(x) # old.key}}
    IN  {<<old>> : old \in olds}
        \cup UNION {{<<old, young>> : young \in recent(old)} : old \in olds}

InitRetention ==
    /\ now = RetentionStart
    /\ inst = "response"
    /\ caches = [c \in CacheNames |-> EmptyStore]
    /\ lastSet = [k \in CacheKeys |-> NoSet]
    /\ last = NoOp
    /\ warmList \in PastLists
    /\ warmer = [pc |-> "idle", cursor |-> 0, fired |-> RetentionStart,
                 requests |-> Len(warmList), since |-> RetentionStart,
                 erredAt |-> 0]
    /\ upFailed = FALSE
    /\ IdleHop /\ IdleFill /\ IdleAdapter

SpecRetention == InitRetention /\ [][NextChart]_vars

\* C29: every entry left by the cleanup of the tick at time t has
\* t - registeredAt <= RETENTION, whatever its lastSeen; what the cleanup
\* deleted was older than that; and the entry a tick refreshes is never
\* older than that.
C29_CleanupByRegistrationAge ==
    /\ \A i \in 1..Len(warmList) :
          warmer.fired - warmList[i].registeredAt <= RETENTION
    /\ last.op = "cleanup" =>
          \A e \in last.expired : last.at - e.registeredAt > RETENTION
    /\ (last.op = "chart" /\ last.by = "warmer") =>
          last.at - last.entryRegisteredAt <= RETENTION

\* A cleanup has deleted an entry that was re-registered within the last
\* interval, and left a younger entry to refresh.
C29_Witness ==
    /\ last.op = "cleanup"
    /\ \E e \in last.expired : /\ e.lastSeen > RetentionStart
                               /\ last.at - e.lastSeen <= REFRESH_INTERVAL
    /\ Len(warmList) > 0

\* C30: a refresh that ends in an error leaves the warm list as it was and
\* the pass running, its iterator on the next entry; and a pass only ends
\* once every entry of the list has been visited.
C30_RefreshErrorDoesNotStopPass ==
    [][/\ (/\ last' # last /\ last'.op = "chart" /\ last'.by = "warmer"
           /\ last'.outcome = "ERR")
          => /\ warmList' = warmList
             /\ last'.entryKey \in WarmKeys(warmList')
             /\ warmer'.pc = "await"
             /\ warmer'.cursor = warmer.cursor + 1
             /\ warmer'.fired = warmer.fired
       /\ (warmer.pc \in {"sync", "await"} /\ warmer'.pc = "idle")
          => warmer.cursor >= Len(warmList)]_vars

\* In a pass one of whose refreshes ended in an error, the refresh of a
\* later entry has been computed, an entry visited before it still listed.
C30_Witness ==
    /\ last.op = "chart" /\ last.by = "warmer" /\ last.outcome = "MISS"
    /\ warmer.erredAt = warmer.fired
    /\ warmer.erredAt = last.at
    /\ \E i \in 1..Len(warmList) :
          /\ warmList[i].key # last.entryKey
          /\ i < warmer.cursor

====
